---- MODULE Spec2Model ----
(***************************************************************************)
(* A model of the AR pong game (PongGame in src/pong-game.js) together     *)
(* with the part of ARScene it talks to, and of the JavaScript timers      *)
(* (setTimeout) the game schedules.                                        *)
(*                                                                         *)
(* Numbers.  The program computes with floating point metres, metres per   *)
(* second and seconds.  The model is fixed point: lengths are millimetres, *)
(* velocities millimetres per second, times milliseconds, and factors are  *)
(* per mille.  A product of two such quantities is divided back with Quot  *)
(* (truncation toward zero), so every value is within one unit of what the *)
(* program computes.                                                       *)
(*                                                                         *)
(* Left out, because no state the model keeps depends on it: the three.js  *)
(* meshes and materials, the trail (updateTrail), the ball's rotation, the *)
(* paddle flash (flashPaddle and its 100 ms timer), the per-particle       *)
(* position/velocity arrays of a particle system, and the sound synthesis  *)
(* of playSound (the model keeps which sound was requested, in events).    *)
(***************************************************************************)
EXTENDS Integers, Sequences, FiniteSets, TLC

VARIABLES
    lifecycle,          \* "constructed" | "initialized" | "disposed" (which of constructor / initialize / dispose ran last)
    isPlaying,          \* PongGame.isPlaying
    playerScore,        \* PongGame.playerScore
    aiScore,            \* PongGame.aiScore
    gameLevel,          \* PongGame.gameLevel
    ballSpeed,          \* PongGame.ballSpeed (mm/s)
    ball,               \* PongGame.ball.position
    ballVelocity,       \* PongGame.ballVelocity
    lastPosition,       \* PongGame.lastPosition
    playerPaddle,       \* PongGame.playerPaddle.position
    aiPaddle,           \* PongGame.aiPaddle.position
    particlePool,       \* PongGame.particlePool: the userData of each pooled particle system
    particles,          \* PongGame.particles: the active list, as indices into particlePool
    scoreIndicators,    \* PongGame.scoreIndicators: the live "+1" sprites
    timers,             \* the setTimeout callbacks not yet run, in the order they were scheduled
    sinceFrame,         \* ms of wall clock since the scene's last frame
    onUpdateCallbacks,  \* ARScene.onUpdateCallbacks: function identities
    boundFns,           \* how many function objects this.update.bind(this) has produced
    objects,            \* ARScene.objects
    arAnchor,           \* ARScene.arAnchor: "null" | "created" | "placed" (userData.placed)
    sceneGraph,         \* the parent of every object in the three.js graph: "scene" | "anchor"
    table,              \* PongGame.table: the handle createHorizontalPlane returned, or Null
    audioContext,       \* PongGame.audioContext: "null" | "running" | "throws" | "closed"
    audioOut,           \* what playSound did in the last operation: oscillators started, warnings logged
    pointerDown,        \* PongGame.pointerDown
    lastPointerPosition,\* PongGame.lastPointerPosition (normalised device coordinates, per mille)
    pointerDelta,       \* PongGame.pointerDelta
    pointerEvents,      \* pointer events handled so far
    anchorPosition,     \* ARScene.arAnchor.position (mm): where the content was placed
    matrixWorld,        \* ARScene.arAnchor.matrixWorld: the translation it holds
    camera,             \* ARScene.camera: its world position (mm)
    scoreText,          \* the #playerScore and #aiScore elements: whether found, and their textContent
    events,             \* what the last operation did, in order: sounds requested, emissions, round resets
    lastOp,             \* the operation that produced this state
    roundsEnded,        \* how many times a score has reached winningScore
    ticks,              \* frames run so far
    entries,            \* DebugUtility.entries: the entry elements, oldest first
    debugContent,       \* the children of the #debug-content element, in document order
    panelVisible,       \* whether #debug-panel has the class 'visible'
    elements,           \* elements made by document.createElement for the panel so far
    debugCalls,         \* operations on the debug panel so far
    app                 \* the App, its ARScene and the PongGame instances it has made

gameState == <<lifecycle, isPlaying, playerScore, aiScore, gameLevel, ballSpeed, ball,
          ballVelocity, lastPosition, playerPaddle, aiPaddle, particlePool, particles,
          scoreIndicators, timers, sinceFrame, onUpdateCallbacks, boundFns, objects,
          arAnchor, sceneGraph, table, audioContext, audioOut,
          pointerDown, lastPointerPosition, pointerDelta, pointerEvents,
          anchorPosition, matrixWorld, camera,
          scoreText, events, roundsEnded, ticks>>

\* The state of the page around the game.
hostVars == <<entries, debugContent, panelVisible, elements, debugCalls, app>>

vars == <<gameState, lastOp, hostVars>>

\* new App(), when checkARSupport has found AR supported or not: without
\* support the 'AR Not Supported' notice is up and the start button is
\* disabled.  The fields of the ARScene (scene, renderer, gl, debugMode,
\* session, sessionReady, arAnchor) are those of this.arScene when there is
\* one; games are the PongGame instances made so far and pongGame the index
\* of the current one (0 for null); calls are the methods the last handler
\* invoked on the ARScene, each with whether scene and renderer were set.
NewApp(arSupported) ==
    [ arScene |-> FALSE, scene |-> FALSE, renderer |-> FALSE, gl |-> FALSE,
      debugMode |-> FALSE, session |-> FALSE, sessionReady |-> FALSE,
      arAnchor |-> "null",
      pongGame |-> 0, games |-> <<>>,
      arSupported |-> arSupported, arActive |-> FALSE, arStartAttempts |-> 0,
      page |-> "landing", startDisabled |-> ~arSupported,
      notSupported |-> ~arSupported, permissionShown |-> FALSE,
      useARFallbackMode |-> FALSE,
      calls |-> <<>>, reported |-> ~arSupported, thrown |-> FALSE ]

\* The page as new App() and new DebugUtility() leave it: no entries, the
\* panel hidden, no scene and no game.
HostIdle ==
    /\ app = NewApp(TRUE)
    /\ entries = <<>>
    /\ debugContent = <<>>
    /\ panelVisible = FALSE
    /\ elements = 0
    /\ debugCalls = 0

----------------------------------------------------------------------------
(* Program constants, in mm, mm/s, mm/s^2, ms and per mille. *)

winningScore == 5
tableWidth == 800
tableDepth == 1200
tableHeight == 10
playAreaHeight == 600
paddleWidth == 150
paddleHeight == 150
paddleDepth == 10
ballRadius == 20
gravity == -300
groundDamping == 800
aiPaddleMovementSpeed == 500
poolSize == 10
maxLifetime == 1000
indicatorMaxLifetime == 1500
initialBallSpeed == 500
initialGameLevel == 1
serveDelay == 1000
resetDelay == 3000
burstCount == 5
burstInterval == 300
minLaunchZ == 300
paddleBaseOffset == 50
paddleVerticalRange == playAreaHeight - paddleHeight
paddleDepthRange == (tableDepth * 4) \div 10

----------------------------------------------------------------------------
(* Bounds of the model. *)

\* Frames (update calls) in one behaviour.
MaxTicks == 10

\* Frame times (ms) the scene hands to update: a short frame and a stall.
DeltaTimes == {100, 1800}

\* The random angles of launchBall, as <<cos h, sin h, cos v, sin v>> per mille:
\* h = pi/2 and v = 0 (straight at the player), h = 5pi/4 and v = 0
\* (diagonal, at the AI), h = pi/4 and v = 0.15 pi (diagonal and up, at the
\* player), h = 0 and v = 0 (along the net: sin h = 0).
LaunchAngles == { <<0, 1000, 1000, 0>>, <<-707, -707, 1000, 0>>,
                  <<707, 707, 891, 454>>, <<1000, 0, 1000, 0>> }

\* Frames in one behaviour of SceneSpec.
MaxSceneTicks == 2

\* Frame times of SceneSpec: a short frame, and two stalls that carry a
\* served ball past a paddle plane, one short of the table end and one
\* beyond it.
SceneDeltaTimes == {100, 1700, 1800}

\* Frames in one behaviour of CampaignSpec.
MaxCampaignTicks == 80

\* CampaignSpec: every frame is a stall, and every serve the diagonal up
\* and at the player (h = pi/4, v = 0.15 pi).
CampaignDeltaTimes == {1800}

CampaignAngles == { <<707, 707, 891, 454>> }

\* AI ticks in one behaviour of AISpec.
MaxAITicks == 5

\* AISpec: the x the AI predicts for the ball, held fixed: the table's
\* centre line, and 0.3 m.
AITargets == {0, 300}

\* AISpec: where the AI paddle's x starts, on the centre line (where
\* createPaddles puts it) or left of it: never beyond a target.
AIStarts == {-325, -200, -100, 0}

\* AISpec: the jitter of a tick: none (Math.random() >= 0.05), or the three
\* offsets (Math.random() - 0.5) * 0.05, * 0.05, * 0.02 near either end.
AIJitters == { <<0, 0, 0>>, <<24, 24, 9>>, <<-25, -25, -10>> }

\* The random jitter of updateAI when Math.random() >= 0.05: none.
NoJitter == <<0, 0, 0>>

\* Rallies: frames short and long, serves close to straight ahead.
MaxPlayTicks == 6
PlayDeltaTimes == {100, 1300, 1800}
PlayAngles == { <<100, 995, 1000, 0>>, <<200, 980, 1000, 0>>, <<-200, -980, 1000, 0>> }

\* The ball near the walls: where it is and how it flies (|v| = ballSpeed).
MaxWallTicks == 3
WallBalls == { [x |-> 0, y |-> 560, z |-> 0], [x |-> 370, y |-> 30, z |-> 100],
               [x |-> -370, y |-> 300, z |-> -100] }
WallVelocities == { [x |-> 0, y |-> 400, z |-> 300], [x |-> 400, y |-> 0, z |-> 300],
                    [x |-> -400, y |-> 0, z |-> -300], [x |-> 0, y |-> -400, z |-> 300] }

\* The pointer: events at three places of the window (the middle, whose ray
\* is parallel to the touch plane; the bottom left corner, whose ray goes
\* down to it; a point of the upper half, whose ray goes up and away from
\* it).  In AR mode the content is placed at the origin of the reference
\* space or away from it, and the viewer holds the camera still.
MaxPointerEvents == 3
MaxPointerTicks == 1
ClientPoints == { <<500, 500>>, <<0, 1000>>, <<900, 200>> }
AnchorPositions == { [x |-> 0, y |-> 0, z |-> 0], [x |-> 300, y |-> 0, z |-> -1500] }
CameraPositions == { [x |-> 0, y |-> 1600, z |-> 1000] }

----------------------------------------------------------------------------
(* Arithmetic. *)

Abs(a) == IF a < 0 THEN -a ELSE a

Sign(a) == IF a > 0 THEN 1 ELSE IF a < 0 THEN -1 ELSE 0

Min2(a, b) == IF a < b THEN a ELSE b

Max2(a, b) == IF a > b THEN a ELSE b

\* a / b for b > 0, truncated toward zero.
Quot(a, b) == IF a >= 0 THEN a \div b ELSE -((-a) \div b)

\* a / b for b > 0, rounded to nearest.
Round(a, b) == IF a >= 0 THEN (2 * a + b) \div (2 * b) ELSE -((2 * (-a) + b) \div (2 * b))

RECURSIVE SqrtBetween(_, _, _)
SqrtBetween(n, lo, hi) ==
    IF lo >= hi THEN lo
    ELSE LET mid == (lo + hi + 1) \div 2
         IN IF mid * mid <= n THEN SqrtBetween(n, mid, hi) ELSE SqrtBetween(n, lo, mid - 1)

\* floor(sqrt(n)), for 0 <= n < 2^30.
ISqrt(n) == SqrtBetween(n, 0, 32767)

Vec(x, y, z) == [x |-> x, y |-> y, z |-> z]

Centre == Vec(0, tableHeight + ballRadius, 0)

Obj(kind, id) == [kind |-> kind, id |-> id]

\* null, where an object is expected.
Null == Obj("null", 0)

RemoveAt(s, i) == SubSeq(s, 1, i - 1) \o SubSeq(s, i + 1, Len(s))

\* Array.prototype.indexOf, 1-based; 0 when absent.
IndexOf(s, e) ==
    IF \E i \in 1..Len(s) : s[i] = e
    THEN CHOOSE i \in 1..Len(s) : s[i] = e /\ \A j \in 1..(i - 1) : s[j] # e
    ELSE 0

----------------------------------------------------------------------------
(* The state the game's methods read and write, as one record, so that a   *)
(* method is an operator from the state before to the state after and a    *)
(* handler is the composition of the methods it calls, in the code's order.*)

Game ==
    [ isPlaying |-> isPlaying, playerScore |-> playerScore, aiScore |-> aiScore,
      gameLevel |-> gameLevel, ballSpeed |-> ballSpeed, ball |-> ball,
      ballVelocity |-> ballVelocity, lastPosition |-> lastPosition,
      playerPaddle |-> playerPaddle, aiPaddle |-> aiPaddle,
      particlePool |-> particlePool, particles |-> particles,
      scoreIndicators |-> scoreIndicators, timers |-> timers,
      onUpdateCallbacks |-> onUpdateCallbacks, boundFns |-> boundFns,
      objects |-> objects, arAnchor |-> arAnchor, sceneGraph |-> sceneGraph,
      table |-> table, audioContext |-> audioContext, audioOut |-> <<>>,
      pointerDown |-> pointerDown, lastPointerPosition |-> lastPointerPosition,
      pointerDelta |-> pointerDelta,
      anchorPosition |-> anchorPosition, matrixWorld |-> matrixWorld, camera |-> camera,
      returned |-> Null, scoreText |-> scoreText, events |-> <<>> ]

\* The state after a handler that ended in g.
Commit(g) ==
    /\ isPlaying' = g.isPlaying
    /\ playerScore' = g.playerScore
    /\ aiScore' = g.aiScore
    /\ gameLevel' = g.gameLevel
    /\ ballSpeed' = g.ballSpeed
    /\ ball' = g.ball
    /\ ballVelocity' = g.ballVelocity
    /\ lastPosition' = g.lastPosition
    /\ playerPaddle' = g.playerPaddle
    /\ aiPaddle' = g.aiPaddle
    /\ particlePool' = g.particlePool
    /\ particles' = g.particles
    /\ scoreIndicators' = g.scoreIndicators
    /\ timers' = g.timers
    /\ onUpdateCallbacks' = g.onUpdateCallbacks
    /\ boundFns' = g.boundFns
    /\ objects' = g.objects
    /\ sceneGraph' = g.sceneGraph
    /\ table' = g.table
    /\ audioContext' = g.audioContext
    /\ audioOut' = g.audioOut
    /\ pointerDown' = g.pointerDown
    /\ UNCHANGED hostVars
    /\ anchorPosition' = g.anchorPosition
    /\ matrixWorld' = g.matrixWorld
    /\ camera' = g.camera
    /\ lastPointerPosition' = g.lastPointerPosition
    /\ pointerDelta' = g.pointerDelta
    /\ scoreText' = g.scoreText
    /\ events' = g.events

\* One entry of events: what happened, and the ball and speed target then.
Log(g, type) ==
    [g EXCEPT !.events = Append(@, [type |-> type, pos |-> g.ball,
                                    vel |-> g.ballVelocity, speed |-> g.ballSpeed])]

\* playSound without the try/catch: the exception of a throwing backend
\* ends the handler, and the frame loop with it.
playSoundPropagating(g, type) ==
    LET g1 == Log(g, type)
    IN IF g.audioContext = "null" THEN g1
       ELSE IF g.audioContext = "throws" THEN [g1 EXCEPT !.isPlaying = FALSE]
       ELSE [g1 EXCEPT !.audioOut =
                Append(@, [type |-> type,
                           outcome |-> IF g.audioContext = "closed" THEN "closed" ELSE "played"])]

\* playSound(type).  The call is recorded in events whatever the backend;
\* without a context the method returns at once, with one whose calls throw
\* the exception is caught and a warning logged, otherwise the oscillators
\* are started (inaudibly on a context dispose() has closed).
playSound(g, type) ==
    LET g1 == Log(g, type)
    IN IF g.audioContext = "null" THEN g1
       ELSE [g1 EXCEPT !.audioOut =
                Append(@, [type |-> type,
                           outcome |-> IF g.audioContext = "throws" THEN "warned"
                                       ELSE IF g.audioContext = "closed" THEN "closed"
                                       ELSE "played"])]

\* window.setTimeout(callback, delay).
setTimeout(g, kind, delay) ==
    [g EXCEPT !.timers = Append(@, [kind |-> kind, rem |-> delay])]

----------------------------------------------------------------------------
(* ARScene: the object list and the update callbacks. *)

\* Object3D.add / Object3D.remove: an object has one parent at a time, and
\* removing an object from a parent it is not a child of does nothing.
Attach(graph, obj, parent) ==
    {e \in graph : e.obj # obj} \cup {[obj |-> obj, parent |-> parent]}

Detach(graph, obj) == {e \in graph : e.obj # obj}

\* addObject returning nothing.
addObjectReturningNothing(g, obj) ==
    [g EXCEPT !.sceneGraph = Attach(@, obj, IF g.arAnchor = "placed" THEN "anchor" ELSE "scene"),
              !.objects = Append(@, obj)]

\* addObject(object): g.returned is the value the call returns.
addObject(g, obj) ==
    [g EXCEPT !.sceneGraph = Attach(@, obj, IF g.arAnchor = "placed" THEN "anchor" ELSE "scene"),
              !.objects = Append(@, obj),
              !.returned = obj]

removeObject(g, obj) ==
    LET index == IndexOf(g.objects, obj)
        g1 == [g EXCEPT !.sceneGraph = Detach(@, obj)]
    IN IF index # 0 THEN [g1 EXCEPT !.objects = RemoveAt(@, index)] ELSE g1

\* createHorizontalPlane(...): the plane is new on every call; the call
\* returns what addObject returns.
createHorizontalPlane(g, id) == addObject(g, Obj("table", id))

addUpdateCallback(g, fn) == [g EXCEPT !.onUpdateCallbacks = Append(@, fn)]

removeUpdateCallback(g, fn) ==
    LET index == IndexOf(g.onUpdateCallbacks, fn)
    IN IF index # 0 THEN [g EXCEPT !.onUpdateCallbacks = RemoveAt(@, index)] ELSE g

\* this.update.bind(this): every evaluation makes a new function object.
\* The result is the state with the new function counted; its identity is
\* the new count.
bindUpdate(g) == [g EXCEPT !.boundFns = @ + 1]

----------------------------------------------------------------------------
(* Effects: the particle pool and the score indicators. *)

NewParticleSystem == [active |-> FALSE, visible |-> FALSE, lifetime |-> 0, color |-> "random"]

RECURSIVE createParticlePoolFrom(_, _)
createParticlePoolFrom(g, i) ==
    IF i >= poolSize THEN g
    ELSE createParticlePoolFrom(
             addObject([g EXCEPT !.particlePool = Append(@, NewParticleSystem)],
                       Obj("particles", Len(g.particlePool) + 1)),
             i + 1)

createParticlePool(g) == createParticlePoolFrom(g, 0)

\* Objects of the host, not of the game.
HostObjects == {Obj("host", 1)}

\* The first inactive slot of the pool, 0 when every slot is active.
FirstInactive(pool) ==
    IF \E i \in 1..Len(pool) : ~pool[i].active
    THEN CHOOSE i \in 1..Len(pool) : ~pool[i].active /\ \A j \in 1..(i - 1) : pool[j].active
    ELSE 0

\* emitParticles with the exhausted pool handled wrongly: slot 1 is taken
\* over although it is active.
emitParticlesReusing(g, color) ==
    LET found == FirstInactive(g.particlePool)
        slot == IF found = 0 THEN 1 ELSE found
    IN IF Len(g.particlePool) = 0 THEN Log(g, "emitDropped")
       ELSE Log([g EXCEPT !.particlePool[slot] =
                              [active |-> TRUE, visible |-> TRUE, lifetime |-> 0, color |-> color],
                          !.particles = Append(@, slot)],
                "emit")

emitParticles(g, color) ==
    LET slot == FirstInactive(g.particlePool)
    IN IF slot = 0 THEN Log(g, "emitDropped")
       ELSE Log([g EXCEPT !.particlePool[slot] =
                              [active |-> TRUE, visible |-> TRUE, lifetime |-> 0, color |-> color],
                          !.particles = Append(@, slot)],
                "emit")

RECURSIVE updateParticlesFrom(_, _, _)
updateParticlesFrom(g, deltaTime, i) ==
    IF i > Len(g.particles) THEN g
    ELSE LET slot == g.particles[i]
             life == g.particlePool[slot].lifetime + deltaTime
         IN IF life >= maxLifetime
            THEN updateParticlesFrom(
                     [g EXCEPT !.particlePool[slot].lifetime = life,
                               !.particlePool[slot].active = FALSE,
                               !.particlePool[slot].visible = FALSE,
                               !.particles = RemoveAt(@, i)],
                     deltaTime, i)
            ELSE updateParticlesFrom([g EXCEPT !.particlePool[slot].lifetime = life],
                                     deltaTime, i + 1)

\* updateParticles with the expired systems left in the active list.
updateParticlesKeepingList(g, deltaTime) ==
    LET Aged(ps) == IF ~ps.active THEN ps
                    ELSE IF ps.lifetime + deltaTime >= maxLifetime
                    THEN [ps EXCEPT !.lifetime = @ + deltaTime, !.active = FALSE,
                                    !.visible = FALSE]
                    ELSE [ps EXCEPT !.lifetime = @ + deltaTime]
    IN [g EXCEPT !.particlePool = [i \in 1..Len(g.particlePool) |-> Aged(g.particlePool[i])]]

updateParticles(g, deltaTime) == updateParticlesFrom(g, deltaTime, 1)

\* An identity for a new sprite: the least one no live indicator has.
FreshIndicator(g) ==
    CHOOSE n \in 1..(Len(g.scoreIndicators) + 1) :
        /\ \A k \in 1..Len(g.scoreIndicators) : g.scoreIndicators[k].id # n
        /\ \A m \in 1..(n - 1) : \E k \in 1..Len(g.scoreIndicators) : g.scoreIndicators[k].id = m

createScoreIndicator(g, isPlayer) ==
    LET id == FreshIndicator(g)
    IN [addObject(g, Obj("indicator", id))
           EXCEPT !.scoreIndicators = Append(@, [id |-> id, lifetime |-> 0, isPlayer |-> isPlayer])]

RECURSIVE updateScoreIndicatorsFrom(_, _, _)
updateScoreIndicatorsFrom(g, deltaTime, i) ==
    IF i > Len(g.scoreIndicators) THEN g
    ELSE LET life == g.scoreIndicators[i].lifetime + deltaTime
         IN IF life >= indicatorMaxLifetime
            THEN updateScoreIndicatorsFrom(
                     [removeObject(g, Obj("indicator", g.scoreIndicators[i].id))
                         EXCEPT !.scoreIndicators = RemoveAt(@, i)],
                     deltaTime, i)
            ELSE updateScoreIndicatorsFrom([g EXCEPT !.scoreIndicators[i].lifetime = life],
                                           deltaTime, i + 1)

\* updateScoreIndicators with the expired sprites left in the scene.
updateScoreIndicatorsKeepingScene(g, deltaTime) ==
    LET Aged(ind) == [ind EXCEPT !.lifetime = @ + deltaTime]
    IN [g EXCEPT !.scoreIndicators =
           SelectSeq([k \in 1..Len(g.scoreIndicators) |-> Aged(g.scoreIndicators[k])],
                     LAMBDA ind : ind.lifetime < indicatorMaxLifetime)]

updateScoreIndicators(g, deltaTime) == updateScoreIndicatorsFrom(g, deltaTime, 1)

\* updateScoreDisplay writing the player's element only.
updateScoreDisplayPlayerOnly(g) ==
    IF g.scoreText.playerElement /\ g.scoreText.aiElement
    THEN [g EXCEPT !.scoreText.player = ToString(g.playerScore)]
    ELSE g

\* Both elements are looked up once, in the constructor; nothing is written
\* unless both were found.
updateScoreDisplay(g) ==
    IF g.scoreText.playerElement /\ g.scoreText.aiElement
    THEN [g EXCEPT !.scoreText.player = ToString(g.playerScore),
                   !.scoreText.ai = ToString(g.aiScore)]
    ELSE g

----------------------------------------------------------------------------
(* Serving. *)

\* launchBall without the floor on the z component.
launchBallUnfloored(g, angle) ==
    LET vx == Quot(angle[1] * angle[3] * g.ballSpeed, 1000000)
        vy == Quot(angle[4] * g.ballSpeed, 1000)
        vz == Quot(angle[2] * angle[3] * g.ballSpeed, 1000000)
        g1 == [g EXCEPT !.ballVelocity = Vec(vx, vy, vz), !.lastPosition = g.ball]
    IN playSound(emitParticles(g1, "cyan"), "launch")

\* launchBall(); angle is what the two Math.random() calls give, as
\* <<cos h, sin h, cos v, sin v>> per mille.
launchBall(g, angle) ==
    LET vx == Quot(angle[1] * angle[3] * g.ballSpeed, 1000000)
        vy == Quot(angle[4] * g.ballSpeed, 1000)
        vz == Quot(angle[2] * angle[3] * g.ballSpeed, 1000000)
        vzFloored == IF Abs(vz) < minLaunchZ
                     THEN (IF vz > 0 THEN minLaunchZ ELSE -minLaunchZ)
                     ELSE vz
        g1 == [g EXCEPT !.ballVelocity = Vec(vx, vy, vzFloored), !.lastPosition = g.ball]
    IN playSound(emitParticles(g1, "cyan"), "launch")

\* resetBall without the assignment to position.z.
centreBallKeepingZ(g) ==
    [g EXCEPT !.ball.x = 0, !.ball.y = tableHeight + ballRadius]

\* The first three statements of resetBall: the ball goes to the table centre.
centreBall(g) ==
    [g EXCEPT !.ball = Vec(0, tableHeight + ballRadius, 0)]

resetBall(g, initialStart, angle) ==
    IF initialStart
    THEN setTimeout(centreBall(g), "launch", serveDelay)
    ELSE launchBall(centreBall(g), angle)

----------------------------------------------------------------------------
(* The round end. *)

RECURSIVE scheduleBursts(_, _)
scheduleBursts(g, i) ==
    IF i >= burstCount THEN g
    ELSE scheduleBursts(setTimeout(g, "burst", i * burstInterval), i + 1)

checkGameEnd(g) ==
    IF g.playerScore >= winningScore \/ g.aiScore >= winningScore
    THEN setTimeout(scheduleBursts(playSound(g, "win"), 0), "reset", resetDelay)
    ELSE g

\* The speed of a level without the cap.
speedForLevelUncapped(level) == 500 + level * 50

\* Math.min(0.5 + (this.gameLevel * 0.05), 0.8)
speedForLevel(level) == Min2(500 + level * 50, 800)

\* The callback of the 3 s timer of checkGameEnd.
roundReset(g) ==
    LET g1 == updateScoreDisplay([g EXCEPT !.playerScore = 0, !.aiScore = 0])
        g2 == resetBall(g1, TRUE, <<0, 0, 0, 0>>)
        level == g2.gameLevel + 1
    IN Log([g2 EXCEPT !.gameLevel = level, !.ballSpeed = speedForLevel(level)],
           "reset")

\* The callback of a celebration timer of checkGameEnd.
celebrationBurst(g) ==
    emitParticles(g, IF g.playerScore > g.aiScore THEN "green" ELSE "red")

----------------------------------------------------------------------------
(* Scoring. *)

aiScores(g, angle) ==
    LET g1 == updateScoreDisplay([g EXCEPT !.aiScore = @ + 1])
        g2 == playSound(createScoreIndicator(g1, FALSE), "score")
        g3 == emitParticles(g2, "red")
    IN checkGameEnd(resetBall(g3, FALSE, angle))

playerScores(g, angle) ==
    LET g1 == updateScoreDisplay([g EXCEPT !.playerScore = @ + 1])
        g2 == playSound(createScoreIndicator(g1, TRUE), "score")
        g3 == emitParticles(g2, "green")
    IN checkGameEnd(resetBall(g3, FALSE, angle))

\* checkScoring with the limits at the paddle planes instead of beyond the
\* table ends.
checkScoringAtPaddlePlane(g, angle) ==
    LET g0 == Log(g, "checkScoring")
        g1 == IF g0.ball.z > tableDepth \div 2 - paddleBaseOffset THEN aiScores(g0, angle) ELSE g0
    IN IF g1.ball.z < -(tableDepth \div 2) + paddleBaseOffset THEN playerScores(g1, angle) ELSE g1

\* The call is recorded in events, with the ball as checkScoring finds it.
checkScoring(g, angle) ==
    LET g0 == Log(g, "checkScoring")
        g1 == IF g0.ball.z > tableDepth \div 2 + ballRadius THEN aiScores(g0, angle) ELSE g0
    IN IF g1.ball.z < -(tableDepth \div 2) - ballRadius THEN playerScores(g1, angle) ELSE g1

----------------------------------------------------------------------------
(* Paddle collisions. *)

\* The hit without the normalisation: the velocity keeps its length.
normalizeSkipped(v, speed) == v

\* v scaled to the length speed: v.multiplyScalar(speed / |v|), with |v|
\* taken to a tenth of a mm/s.
normalizeTo(v, speed) ==
    LET len10 == ISqrt((v.x * v.x + v.y * v.y + v.z * v.z) * 100)
    IN Vec(Round(v.x * speed * 10, len10), Round(v.y * speed * 10, len10),
           Round(v.z * speed * 10, len10))

\* What a paddle hit does to the velocity: the reflection, the deflection by
\* the hit offset, and the normalisation to ballSpeed.
bounceVelocity(v, b, paddle, speed) ==
    LET hitX500 == Quot((b.x - paddle.x) * 500, paddleWidth \div 2)
        hitY500 == Quot((b.y - paddle.y) * 500, paddleHeight \div 2)
    IN normalizeTo(Vec(v.x + hitX500, v.y + hitY500, Quot(v.z * (-1050), 1000)), speed)

WithinPaddle(b, paddle) ==
    /\ b.x >= paddle.x - paddleWidth \div 2
    /\ b.x <= paddle.x + paddleWidth \div 2
    /\ b.y >= paddle.y - paddleHeight \div 2
    /\ b.y <= paddle.y + paddleHeight \div 2

\* The player-paddle hit without the correction of position.z.
playerPaddleCollisionUnsnapped(g) ==
    LET face == g.playerPaddle.z - paddleDepth \div 2
    IN IF /\ g.ballVelocity.z > 0
          /\ g.ball.z + ballRadius > face
          /\ g.lastPosition.z + ballRadius <= face
          /\ WithinPaddle(g.ball, g.playerPaddle)
       THEN LET g1 == [g EXCEPT
                          !.ballVelocity = bounceVelocity(g.ballVelocity, g.ball,
                                                          g.playerPaddle, g.ballSpeed)]
            IN emitParticles(playSound(g1, "paddle"), "green")
       ELSE g

playerPaddleCollision(g) ==
    LET face == g.playerPaddle.z - paddleDepth \div 2
    IN IF /\ g.ballVelocity.z > 0
          /\ g.ball.z + ballRadius > face
          /\ g.lastPosition.z + ballRadius <= face
          /\ WithinPaddle(g.ball, g.playerPaddle)
       THEN LET g1 == [g EXCEPT
                          !.ballVelocity = bounceVelocity(g.ballVelocity, g.ball,
                                                          g.playerPaddle, g.ballSpeed),
                          !.ball.z = face - ballRadius]
            IN emitParticles(playSound(g1, "paddle"), "green")
       ELSE g

\* The AI-paddle hit without the correction of position.z.
aiPaddleCollisionUnsnapped(g) ==
    LET face == g.aiPaddle.z + paddleDepth \div 2
    IN IF /\ g.ballVelocity.z < 0
          /\ g.ball.z - ballRadius < face
          /\ g.lastPosition.z - ballRadius >= face
          /\ WithinPaddle(g.ball, g.aiPaddle)
       THEN LET g1 == [g EXCEPT
                          !.ballVelocity = bounceVelocity(g.ballVelocity, g.ball,
                                                          g.aiPaddle, g.ballSpeed)]
            IN emitParticles(playSound(g1, "paddle"), "red")
       ELSE g

\* The AI-paddle hit with the 1.05 escalation applied to ballSpeed too.
aiPaddleCollisionEscalating(g) ==
    LET face == g.aiPaddle.z + paddleDepth \div 2
    IN IF /\ g.ballVelocity.z < 0
          /\ g.ball.z - ballRadius < face
          /\ g.lastPosition.z - ballRadius >= face
          /\ WithinPaddle(g.ball, g.aiPaddle)
       THEN LET speed == Quot(g.ballSpeed * 1050, 1000)
                g1 == [g EXCEPT
                          !.ballSpeed = speed,
                          !.ballVelocity = bounceVelocity(g.ballVelocity, g.ball,
                                                          g.aiPaddle, speed),
                          !.ball.z = face + ballRadius]
            IN emitParticles(playSound(g1, "paddle"), "red")
       ELSE g

aiPaddleCollision(g) ==
    LET face == g.aiPaddle.z + paddleDepth \div 2
    IN IF /\ g.ballVelocity.z < 0
          /\ g.ball.z - ballRadius < face
          /\ g.lastPosition.z - ballRadius >= face
          /\ WithinPaddle(g.ball, g.aiPaddle)
       THEN LET g1 == [g EXCEPT
                          !.ballVelocity = bounceVelocity(g.ballVelocity, g.ball,
                                                          g.aiPaddle, g.ballSpeed),
                          !.ball.z = face + ballRadius]
            IN emitParticles(playSound(g1, "paddle"), "red")
       ELSE g

\* The call is recorded in events, with the ball and the velocity as
\* checkPaddleCollisions finds them.
checkPaddleCollisions(g) ==
    aiPaddleCollision(playerPaddleCollision(Log(g, "checkPaddleCollisions")))

----------------------------------------------------------------------------
(* The AI paddle. *)

Clamp(lo, hi, a) == Max2(lo, Min2(hi, a))

\* Math.min(0.4 + (this.gameLevel * 0.05), 0.9)
aiDifficulty(level) == Min2(400 + level * 50, 900)

\* updateAI without the clamps at its end.
updateAIUnclamped(g, deltaTime, jitter) ==
    LET difficulty == aiDifficulty(g.gameLevel)
        aiSpeed == Quot(aiPaddleMovementSpeed * difficulty, 1000)
        targetX == g.ball.x + Quot(g.ballVelocity.x * deltaTime * 60, 1000)
        targetY == g.ball.y + Quot(g.ballVelocity.y * deltaTime * 60, 1000)
        targetZ == -(tableDepth \div 2) + paddleBaseOffset
        p == g.aiPaddle
        g0 == Log(g, "updateAI")
    IN [g0 EXCEPT !.aiPaddle =
           IF g.ballVelocity.z < 0
           THEN Vec(p.x + Quot((targetX - p.x) * aiSpeed, 1000) + jitter[1],
                    p.y + Quot((targetY - p.y) * aiSpeed, 1000) + jitter[2],
                    p.z + Quot((targetZ - p.z) * aiSpeed, 1000) + jitter[3])
           ELSE p]

\* updateAI without the test of velocity.z: the paddle follows the ball
\* whichever way it flies.
updateAIAlways(g, deltaTime, jitter) ==
    LET difficulty == aiDifficulty(g.gameLevel)
        aiSpeed == Quot(aiPaddleMovementSpeed * difficulty, 1000)
        targetX == g.ball.x + Quot(g.ballVelocity.x * deltaTime * 60, 1000)
        targetY == g.ball.y + Quot(g.ballVelocity.y * deltaTime * 60, 1000)
        targetZ == -(tableDepth \div 2) + paddleBaseOffset
        p == g.aiPaddle
        g0 == Log(g, "updateAI")
        moved == Vec(p.x + Quot((targetX - p.x) * aiSpeed, 1000) + jitter[1],
                     p.y + Quot((targetY - p.y) * aiSpeed, 1000) + jitter[2],
                     p.z + Quot((targetZ - p.z) * aiSpeed, 1000) + jitter[3])
        maxX == tableWidth \div 2 - paddleWidth \div 2
    IN [g0 EXCEPT !.aiPaddle =
           Vec(Clamp(-maxX, maxX, moved.x),
               Clamp(tableHeight + paddleHeight \div 2, tableHeight + paddleVerticalRange, moved.y),
               Clamp(-(tableDepth \div 2) - paddleDepthRange,
                     -(tableDepth \div 2) + paddleBaseOffset, moved.z))]

\* jitter is <<0, 0, 0>> when Math.random() >= 0.05, and the three offsets
\* drawn otherwise.  The call is recorded in events, with the velocity it
\* finds.
updateAI(g, deltaTime, jitter) ==
    LET difficulty == aiDifficulty(g.gameLevel)
        aiSpeed == Quot(aiPaddleMovementSpeed * difficulty, 1000)
        targetX == g.ball.x + Quot(g.ballVelocity.x * deltaTime * 60, 1000)
        targetY == g.ball.y + Quot(g.ballVelocity.y * deltaTime * 60, 1000)
        targetZ == -(tableDepth \div 2) + paddleBaseOffset
        p == g.aiPaddle
        g0 == Log(g, "updateAI")
        moved == IF g.ballVelocity.z < 0
                 THEN Vec(p.x + Quot((targetX - p.x) * aiSpeed, 1000) + jitter[1],
                          p.y + Quot((targetY - p.y) * aiSpeed, 1000) + jitter[2],
                          p.z + Quot((targetZ - p.z) * aiSpeed, 1000) + jitter[3])
                 ELSE p
        maxX == tableWidth \div 2 - paddleWidth \div 2
    IN [g0 EXCEPT !.aiPaddle =
           Vec(Clamp(-maxX, maxX, moved.x),
               Clamp(tableHeight + paddleHeight \div 2, tableHeight + paddleVerticalRange, moved.y),
               Clamp(-(tableDepth \div 2) - paddleDepthRange,
                     -(tableDepth \div 2) + paddleBaseOffset, moved.z))]

----------------------------------------------------------------------------
(* update(deltaTime). *)

\* The step is recorded in events, with deltaTime and with the ball and the
\* velocity it leaves.
integrate(g, deltaTime) ==
    LET vy == g.ballVelocity.y + Quot(gravity * deltaTime, 1000)
        g1 == [g EXCEPT !.lastPosition = g.ball,
                        !.ballVelocity.y = vy,
                        !.ball = Vec(g.ball.x + Quot(g.ballVelocity.x * deltaTime, 1000),
                                     g.ball.y + Quot(vy * deltaTime, 1000),
                                     g.ball.z + Quot(g.ballVelocity.z * deltaTime, 1000))]
    IN [g1 EXCEPT !.events = Append(@, [type |-> "integrate", pos |-> g1.ball,
                                        vel |-> g1.ballVelocity, speed |-> g1.ballSpeed,
                                        deltaTime |-> deltaTime])]

\* The floor/ceiling step without the damping: velocity.y is only negated.
floorCeilingUndamped(g) ==
    LET floor == tableHeight + ballRadius
        ceiling == tableHeight + playAreaHeight - ballRadius
    IN IF g.ball.y < floor
       THEN emitParticles(playSound([g EXCEPT !.ball.y = floor, !.ballVelocity.y = -@],
                                    "wall"), "blue")
       ELSE IF g.ball.y > ceiling
       THEN emitParticles(playSound([g EXCEPT !.ball.y = ceiling, !.ballVelocity.y = -@],
                                    "wall"), "blue")
       ELSE g

floorCeiling(g) ==
    LET floor == tableHeight + ballRadius
        ceiling == tableHeight + playAreaHeight - ballRadius
        damped == Quot(-g.ballVelocity.y * groundDamping, 1000)
    IN IF g.ball.y < floor
       THEN emitParticles(playSound([g EXCEPT !.ball.y = floor, !.ballVelocity.y = damped],
                                    "wall"), "blue")
       ELSE IF g.ball.y > ceiling
       THEN emitParticles(playSound([g EXCEPT !.ball.y = ceiling, !.ballVelocity.y = damped],
                                    "wall"), "blue")
       ELSE g

\* The side-wall step without the clamp of position.x.
sideWallsUnclamped(g) ==
    LET limit == tableWidth \div 2 - ballRadius
    IN IF Abs(g.ball.x) > limit
       THEN emitParticles(playSound([g EXCEPT !.ballVelocity.x = -@], "wall"), "blue")
       ELSE g

sideWalls(g) ==
    LET limit == tableWidth \div 2 - ballRadius
    IN IF Abs(g.ball.x) > limit
       THEN emitParticles(playSound([g EXCEPT !.ballVelocity.x = -@,
                                              !.ball.x = Sign(g.ball.x) * limit],
                                    "wall"), "blue")
       ELSE g

\* update without the isPlaying test.
updateUnguarded(g, deltaTime, angle, jitter) ==
    LET g1 == floorCeiling(integrate(g, deltaTime))
        g2 == sideWalls(updateParticles(g1, deltaTime))
        g3 == checkScoring(checkPaddleCollisions(g2), angle)
    IN updateScoreIndicators(updateAI(g3, deltaTime, jitter), deltaTime)

update(g, deltaTime, angle, jitter) ==
    IF ~g.isPlaying THEN g
    ELSE LET g1 == floorCeiling(integrate(g, deltaTime))
             g2 == sideWalls(updateParticles(g1, deltaTime))
             g3 == checkScoring(checkPaddleCollisions(g2), angle)
         IN updateScoreIndicators(updateAI(g3, deltaTime, jitter), deltaTime)

----------------------------------------------------------------------------
(* The pointer handlers of setupEventListeners, and updatePointerPosition.
   Normalised device coordinates are in thousandths, so that a pointer delta
   of 1 is one millimetre of paddle travel. *)

\* window.innerWidth and window.innerHeight, in pixels.
innerWidth == 1000
innerHeight == 1000

\* verticalSensitivity and depthSensitivity, per mille.
verticalSensitivity == 1000
depthSensitivity == 500
tanHalfFov == 700

\* arScene.debugMode: the game is loaded without an anchor in debug mode
\* only; in AR mode it is loaded when the content has been placed.
debugMode(g) == g.arAnchor = "null"

\* The paddle clamped to the player's range, as both branches clamp it.
clampPlayerPaddle(x, y, z) ==
    LET maxX == tableWidth \div 2 - paddleWidth \div 2
    IN Vec(Clamp(-maxX, maxX, x),
           Clamp(tableHeight + paddleHeight \div 2, tableHeight + paddleVerticalRange, y),
           Clamp(tableDepth \div 2 - paddleDepthRange, tableDepth \div 2, z))

\* updatePointerPosition without the clamps of the debug branch.
updatePointerPositionUnclamped(g, event) ==
    LET newX == Quot(event[1] * 2000, innerWidth) - 1000
        newY == -(Quot(event[2] * 2000, innerHeight) - 1000)
        delta == IF g.pointerDown
                 THEN [x |-> newX - g.lastPointerPosition.x,
                       y |-> newY - g.lastPointerPosition.y]
                 ELSE g.pointerDelta
        g1 == [g EXCEPT !.pointerDelta = delta,
                        !.lastPointerPosition = [x |-> newX, y |-> newY]]
        p == g.playerPaddle
    IN IF g.pointerDown
       THEN [g1 EXCEPT !.playerPaddle =
                Vec(p.x + delta.x,
                    p.y + Quot(delta.y * verticalSensitivity, 1000),
                    p.z + Quot(delta.y * depthSensitivity, 1000))]
       ELSE g1

\* Raycaster.setFromCamera for a camera that looks down -z: the ray from the
\* camera through the pointer; the direction is not normalised, which the
\* intersection does not depend on.
setFromCamera(coords, cam) ==
    [ origin |-> cam,
      direction |-> Vec(Quot(coords.x * tanHalfFov, 1000),
                        Quot(coords.y * tanHalfFov, 1000), -1000) ]

\* Matrix4.invert, of a matrix that holds a translation.  three.js inverts
\* the matrix in place and returns it.
invert(m) == Vec(-m.x, -m.y, -m.z)

\* Ray.applyMatrix4, for a translation: the origin moves, the direction
\* stays.
applyMatrix4(ray, m) ==
    [ray EXCEPT !.origin = Vec(ray.origin.x + m.x, ray.origin.y + m.y, ray.origin.z + m.z)]

\* a * b / c for c # 0, truncated toward zero.
MulDiv(a, b, c) == IF c > 0 THEN Quot(a * b, c) ELSE -Quot(a * b, -c)

\* Ray.intersectPlane with localTouchPlane, the plane y = tableHeight +
\* paddleHeight/2: no point when the ray is parallel to the plane and off
\* it, or goes away from it.
intersectPlane(ray) ==
    LET h == tableHeight + paddleHeight \div 2
        o == ray.origin
        d == ray.direction
    IN IF d.y = 0
       THEN [hit |-> o.y = h, point |-> o]
       ELSE IF (h - o.y) * d.y < 0
            THEN [hit |-> FALSE, point |-> o]
            ELSE [hit |-> TRUE,
                  point |-> Vec(o.x + MulDiv(d.x, h - o.y, d.y), h,
                                o.z + MulDiv(d.z, h - o.y, d.y))]

\* event is <<clientX, clientY>>.  In AR mode the pointer's ray is taken to
\* the anchor's space with arAnchor.matrixWorld.invert(), which leaves the
\* inverse in arAnchor.matrixWorld.
updatePointerPosition(g, event) ==
    LET newX == Quot(event[1] * 2000, innerWidth) - 1000
        newY == -(Quot(event[2] * 2000, innerHeight) - 1000)
        delta == IF g.pointerDown
                 THEN [x |-> newX - g.lastPointerPosition.x,
                       y |-> newY - g.lastPointerPosition.y]
                 ELSE g.pointerDelta
        g1 == [g EXCEPT !.pointerDelta = delta,
                        !.lastPointerPosition = [x |-> newX, y |-> newY]]
        p == g.playerPaddle
    IN IF debugMode(g)
       THEN IF g.pointerDown
            THEN [g1 EXCEPT !.playerPaddle =
                     clampPlayerPaddle(p.x + delta.x,
                                       p.y + Quot(delta.y * verticalSensitivity, 1000),
                                       p.z + Quot(delta.y * depthSensitivity, 1000))]
            ELSE g1
       ELSE IF g.arAnchor # "null"
            THEN LET g2 == [g1 EXCEPT !.matrixWorld = invert(g.matrixWorld)]
                     ray == setFromCamera(g1.lastPointerPosition, g.camera)
                     intersection == intersectPlane(applyMatrix4(ray, g2.matrixWorld))
                 IN IF intersection.hit
                    THEN [g2 EXCEPT !.playerPaddle =
                             clampPlayerPaddle(intersection.point.x, intersection.point.y,
                                               intersection.point.z)]
                    ELSE g2
            ELSE g1

\* The four listeners.
onPointerDown(g, event) ==
    updatePointerPosition([g EXCEPT !.pointerDown = TRUE], event)

onPointerMove(g, event) ==
    IF g.pointerDown THEN updatePointerPosition(g, event) ELSE g

onPointerUp(g) == [g EXCEPT !.pointerDown = FALSE]

onPointerCancel(g) == [g EXCEPT !.pointerDown = FALSE]

----------------------------------------------------------------------------
(* initialize() and dispose(). *)

createTable(g) ==
    LET g1 == createHorizontalPlane(g, 1)
    IN [g1 EXCEPT !.table = g1.returned]

createBall(g) ==
    addObject([g EXCEPT !.ball = Vec(0, tableHeight + ballRadius, 0)], Obj("ball", 1))

createPaddles(g) ==
    LET g1 == [g EXCEPT
                  !.playerPaddle = Vec(0, tableHeight + paddleHeight \div 2,
                                       tableDepth \div 2 - paddleBaseOffset),
                  !.aiPaddle = Vec(0, tableHeight + paddleHeight \div 2,
                                   -(tableDepth \div 2) + paddleBaseOffset)]
    IN addObject(addObject(g1, Obj("paddle", 1)), Obj("paddle", 2))

createWalls(g) == addObject(addObject(g, Obj("wall", 1)), Obj("wall", 2))

initialize(g) ==
    LET g1 == createParticlePool(createWalls(createPaddles(createBall(createTable(g)))))
        g2 == bindUpdate(g1)
        g3 == resetBall(addUpdateCallback(g2, g2.boundFns), TRUE, <<0, 0, 0, 0>>)
    IN updateScoreDisplay([g3 EXCEPT !.isPlaying = TRUE, !.playerScore = 0, !.aiScore = 0])

RECURSIVE removePool(_, _)
removePool(g, i) ==
    IF i > Len(g.particlePool) THEN g
    ELSE removePool(removeObject(g, Obj("particles", i)), i + 1)

\* dispose without the loop over the score indicators.
removeIndicatorsSkipped(g, i) == g

RECURSIVE removeIndicators(_, _)
removeIndicators(g, i) ==
    IF i > Len(g.scoreIndicators) THEN g
    ELSE removeIndicators(removeObject(g, Obj("indicator", g.scoreIndicators[i].id)), i + 1)

dispose(g) ==
    LET g0 == IF g.table # Null THEN removeObject(g, g.table) ELSE g
        g1 == removeObject(removeObject(removeObject(g0,
                  Obj("ball", 1)), Obj("paddle", 1)), Obj("paddle", 2))
        g2 == removeObject(removeObject(g1, Obj("wall", 1)), Obj("wall", 2))
        g3 == removeIndicators(removePool(g2, 1), 1)
        closed == [g3 EXCEPT !.audioContext = IF @ = "null" THEN @ ELSE "closed"]
        g4 == bindUpdate(closed)
    IN [removeUpdateCallback(g4, g4.boundFns) EXCEPT !.isPlaying = FALSE]

----------------------------------------------------------------------------
(* Timers and frames.  A timer carries the time left until it is due; the  *)
(* one that runs next is the earliest due, the first scheduled among equals.*)

Age(ts, ms) == [i \in 1..Len(ts) |-> [ts[i] EXCEPT !.rem = @ - ms]]

NextTimer(ts) ==
    CHOOSE i \in 1..Len(ts) :
        /\ \A j \in 1..Len(ts) : ts[i].rem <= ts[j].rem
        /\ \A j \in 1..(i - 1) : ts[j].rem > ts[i].rem

runTimer(g, kind, angle) ==
    IF kind = "launch" THEN launchBall(g, angle)
    ELSE IF kind = "burst" THEN celebrationBurst(g)
    ELSE roundReset(g)

\* The frame loop (renderDebug, render): every registered callback is called
\* with the frame's deltaTime.  Every function in the list is an update
\* bound to the game.
RECURSIVE runCallbacks(_, _, _, _, _)
runCallbacks(g, i, deltaTime, angle, jitter) ==
    IF i > Len(g.onUpdateCallbacks) THEN g
    ELSE runCallbacks(update(g, deltaTime, angle, jitter), i + 1, deltaTime, angle, jitter)

TopScore(g) == Max2(g.playerScore, g.aiScore)

----------------------------------------------------------------------------
(* The state machine. *)

Origin == Vec(0, 0, 0)

\* The state the two constructors leave: the scene with its anchor as the
\* host has it when the game is loaded, the audio backend the browser
\* gives, and the two score elements found in the document or not.
NewGame(anchor, audio, playerElement, aiElement) ==
    [ isPlaying |-> FALSE, playerScore |-> 0, aiScore |-> 0,
      gameLevel |-> initialGameLevel, ballSpeed |-> initialBallSpeed, ball |-> Origin,
      ballVelocity |-> Origin, lastPosition |-> Origin,
      playerPaddle |-> Origin, aiPaddle |-> Origin,
      particlePool |-> <<>>, particles |-> <<>>,
      scoreIndicators |-> <<>>, timers |-> <<>>,
      onUpdateCallbacks |-> <<>>, boundFns |-> 0,
      objects |-> <<>>, arAnchor |-> anchor, sceneGraph |-> {},
      table |-> Null, audioContext |-> audio, audioOut |-> <<>>,
      pointerDown |-> FALSE, lastPointerPosition |-> [x |-> 0, y |-> 0],
      pointerDelta |-> [x |-> 0, y |-> 0],
      anchorPosition |-> Origin, matrixWorld |-> Origin, camera |-> Origin,
      returned |-> Null,
      scoreText |-> [playerElement |-> playerElement, aiElement |-> aiElement,
                     player |-> "0", ai |-> "0"],
      events |-> <<>> ]

\* The game and the scene are in the state g.
Starts(g) ==
    /\ isPlaying = g.isPlaying
    /\ playerScore = g.playerScore
    /\ aiScore = g.aiScore
    /\ gameLevel = g.gameLevel
    /\ ballSpeed = g.ballSpeed
    /\ ball = g.ball
    /\ ballVelocity = g.ballVelocity
    /\ lastPosition = g.lastPosition
    /\ playerPaddle = g.playerPaddle
    /\ aiPaddle = g.aiPaddle
    /\ particlePool = g.particlePool
    /\ particles = g.particles
    /\ scoreIndicators = g.scoreIndicators
    /\ timers = g.timers
    /\ onUpdateCallbacks = g.onUpdateCallbacks
    /\ boundFns = g.boundFns
    /\ objects = g.objects
    /\ arAnchor = g.arAnchor
    /\ sceneGraph = g.sceneGraph
    /\ table = g.table
    /\ audioContext = g.audioContext
    /\ audioOut = g.audioOut
    /\ pointerDown = g.pointerDown
    /\ anchorPosition = g.anchorPosition
    /\ matrixWorld = g.matrixWorld
    /\ camera = g.camera
    /\ lastPointerPosition = g.lastPointerPosition
    /\ pointerDelta = g.pointerDelta
    /\ scoreText = g.scoreText
    /\ events = g.events

\* The game as its constructor leaves it, in the state g.
GameConstructedIn(g) ==
    /\ Starts(g)
    /\ lifecycle = "constructed"
    /\ pointerEvents = 0
    /\ sinceFrame = 0
    /\ lastOp = "constructor"
    /\ roundsEnded = 0
    /\ ticks = 0

ConstructedIn(g) == GameConstructedIn(g) /\ HostIdle

Constructed(anchor, audio, playerElement, aiElement) ==
    ConstructedIn(NewGame(anchor, audio, playerElement, aiElement))

\* The game loaded in AR mode: the content was placed at position, a frame
\* has been rendered since, and the camera is at cam.
ConstructedAt(position, cam, audio, playerElement, aiElement) ==
    ConstructedIn([NewGame("placed", audio, playerElement, aiElement) EXCEPT
                       !.anchorPosition = position, !.matrixWorld = position,
                       !.camera = cam])

\* Debug mode: no anchor; audio available; both score elements in the page.
Init == Constructed("null", "running", TRUE, TRUE)

Initialize ==
    /\ lifecycle = "constructed"
    /\ Commit(initialize(Game))
    /\ lifecycle' = "initialized"
    /\ lastOp' = "initialize"
    /\ UNCHANGED <<sinceFrame, roundsEnded, ticks, arAnchor, pointerEvents>>

\* WebGLRenderer.render at the end of a frame: scene.updateMatrixWorld()
\* composes the anchor's matrixWorld from its position again.
render(g) == [g EXCEPT !.matrixWorld = g.anchorPosition]

\* Whether launchBall runs in the handler that ended in g.
Launched(g) == \E i \in 1..Len(g.events) : g.events[i].type = "launch"

AnyAngle == CHOOSE angle \in LaunchAngles : TRUE

\* The angles launchBall can draw in a frame: Math.random() is called only
\* when a launch happens.
FrameAnglesOf(angles, g, deltaTime, jitter) ==
    LET any == CHOOSE angle \in angles : TRUE
    IN IF Launched(runCallbacks(g, 1, deltaTime, any, jitter)) THEN angles ELSE {any}

FrameAngles(g, deltaTime, jitter) == FrameAnglesOf(LaunchAngles, g, deltaTime, jitter)

\* A frame deltaTime after the last one, the limit-th at most, with launch
\* angles from angles.  Timers due before it have run.
FrameOf(limit, angles, deltaTime, jitter) ==
    /\ onUpdateCallbacks # <<>>
    /\ ticks < limit
    /\ deltaTime >= sinceFrame
    /\ \A i \in 1..Len(timers) : timers[i].rem >= deltaTime - sinceFrame
    /\ LET g0 == [Game EXCEPT !.timers = Age(timers, deltaTime - sinceFrame)]
       IN \E angle \in FrameAnglesOf(angles, g0, deltaTime, jitter) :
              LET g == runCallbacks(g0, 1, deltaTime, angle, jitter)
              IN /\ Commit(render(g))
                 /\ roundsEnded' = IF /\ TopScore(Game) < winningScore
                                      /\ TopScore(g) >= winningScore
                                   THEN roundsEnded + 1 ELSE roundsEnded
    /\ sinceFrame' = 0
    /\ ticks' = ticks + 1
    /\ lastOp' = "update"
    /\ UNCHANGED <<lifecycle, arAnchor, pointerEvents>>

Frame(deltaTime, jitter) == FrameOf(MaxTicks, LaunchAngles, deltaTime, jitter)

\* The next timer becomes due and its callback runs.
TimerOf(angles) ==
    /\ timers # <<>>
    /\ LET i == NextTimer(timers)
           wait == timers[i].rem
           g0 == [Game EXCEPT !.timers = RemoveAt(Age(timers, wait), i)]
       IN /\ \E angle \in (IF timers[i].kind = "launch" THEN angles
                           ELSE {CHOOSE any \in angles : TRUE}) :
                 Commit(runTimer(g0, timers[i].kind, angle))
          /\ sinceFrame' = sinceFrame + wait
          /\ lastOp' = timers[i].kind
    /\ UNCHANGED <<lifecycle, roundsEnded, ticks, arAnchor, pointerEvents>>

Timer == TimerOf(LaunchAngles)

Dispose ==
    /\ lifecycle = "initialized"
    /\ Commit(dispose(Game))
    /\ lifecycle' = "disposed"
    /\ lastOp' = "dispose"
    /\ UNCHANGED <<sinceFrame, roundsEnded, ticks, arAnchor, pointerEvents>>

\* ARScene.addObject and ARScene.removeObject called by the host, with an
\* object of its own; the host adds an object that is not in the list.
AddObject(obj) ==
    /\ IndexOf(objects, obj) = 0
    /\ Commit(addObject(Game, obj))
    /\ lastOp' = "addObject"
    /\ UNCHANGED <<lifecycle, sinceFrame, roundsEnded, ticks, arAnchor, pointerEvents>>

RemoveObject(obj) ==
    /\ Commit(removeObject(Game, obj))
    /\ lastOp' = "removeObject"
    /\ UNCHANGED <<lifecycle, sinceFrame, roundsEnded, ticks, arAnchor, pointerEvents>>

\* A pointer event on the canvas.  The listeners are added by initialize
\* and stay on the canvas after dispose.
PointerEvent(g, name) ==
    /\ lifecycle # "constructed"
    /\ pointerEvents < MaxPointerEvents
    /\ Commit(g)
    /\ pointerEvents' = pointerEvents + 1
    /\ lastOp' = name
    /\ UNCHANGED <<lifecycle, sinceFrame, roundsEnded, ticks, arAnchor>>

PointerDown(event) == PointerEvent(onPointerDown(Game, event), "pointerdown")

PointerMove(event) == PointerEvent(onPointerMove(Game, event), "pointermove")

PointerUp == PointerEvent(onPointerUp(Game), "pointerup")

PointerCancel == PointerEvent(onPointerCancel(Game), "pointercancel")

Next ==
    \/ Initialize
    \/ \E deltaTime \in DeltaTimes : Frame(deltaTime, NoJitter)
    \/ Timer
    \/ Dispose

Spec == Init /\ [][Next]_vars

\* The game in every host environment: the anchor absent, created or placed
\* when the game is loaded, the audio backend absent, working or throwing,
\* each score element present or not; the host adds and removes an object
\* of its own.
SceneInit ==
    \E anchor \in {"null", "created", "placed"}, audio \in {"null", "running", "throws"},
       playerElement \in BOOLEAN, aiElement \in BOOLEAN :
        Constructed(anchor, audio, playerElement, aiElement)

SceneNext ==
    \/ Initialize
    \/ \E deltaTime \in SceneDeltaTimes :
           FrameOf(MaxSceneTicks, LaunchAngles, deltaTime, NoJitter)
    \/ Timer
    \/ Dispose
    \/ \E obj \in HostObjects : AddObject(obj)
    \/ \E obj \in HostObjects : RemoveObject(obj)

SceneSpec == SceneInit /\ [][SceneNext]_vars

\* The AI paddle tracking a target held fixed: the game initialized and
\* served, the ball on the floor at x = target flying straight at the AI
\* (no x or y velocity, so the predicted position is the ball's), and only
\* updateAI applied, tick after tick.
AIInit ==
    \E target \in AITargets, start \in AIStarts :
        LET g1 == initialize(NewGame("null", "running", TRUE, TRUE))
            g2 == launchBall([g1 EXCEPT !.timers = <<>>], AnyAngle)
        IN /\ Starts([g2 EXCEPT !.ball = Vec(target, tableHeight + ballRadius, 0),
                                !.lastPosition = Vec(target, tableHeight + ballRadius, 0),
                                !.ballVelocity = Vec(0, 0, -g2.ballSpeed),
                                !.aiPaddle.x = start,
                                !.audioOut = <<>>,
                                !.events = <<>>])
           /\ lifecycle = "initialized"
           /\ pointerEvents = 0
           /\ HostIdle
           /\ sinceFrame = 0
           /\ lastOp = "launch"
           /\ roundsEnded = 0
           /\ ticks = 0

\* One call of updateAI, the ball held where it is.
AITick(deltaTime, jitter) ==
    /\ ticks < MaxAITicks
    /\ Commit(updateAI(Game, deltaTime, jitter))
    /\ ticks' = ticks + 1
    /\ lastOp' = "updateAI"
    /\ UNCHANGED <<lifecycle, sinceFrame, roundsEnded, arAnchor, pointerEvents>>

AINext == \E deltaTime \in DeltaTimes, jitter \in AIJitters : AITick(deltaTime, jitter)

AISpec == AIInit /\ [][AINext]_vars

\* A long game: many rounds, so that the level climbs until ballSpeed and
\* the AI difficulty reach their caps.
CampaignNext ==
    \/ Initialize
    \/ \E deltaTime \in CampaignDeltaTimes :
           FrameOf(MaxCampaignTicks, CampaignAngles, deltaTime, NoJitter)
    \/ TimerOf(CampaignAngles)
    \/ Dispose

CampaignSpec == Init /\ [][CampaignNext]_vars

\* Rallies in debug mode with serves close to straight ahead.
PlayNext ==
    \/ Initialize
    \/ \E deltaTime \in PlayDeltaTimes :
           FrameOf(MaxPlayTicks, PlayAngles, deltaTime, NoJitter)
    \/ TimerOf(PlayAngles)
    \/ Dispose

PlaySpec == Init /\ [][PlayNext]_vars

\* The ball in flight near the walls: the game initialized and served, the
\* ball at a place of the play volume with a velocity of length ballSpeed,
\* and frames from there.
WallInit ==
    \E b \in WallBalls, v \in WallVelocities :
        LET g1 == initialize(NewGame("null", "running", TRUE, TRUE))
            g2 == launchBall([g1 EXCEPT !.timers = <<>>], AnyAngle)
        IN /\ Starts([g2 EXCEPT !.ball = b, !.lastPosition = b, !.ballVelocity = v,
                                !.audioOut = <<>>, !.events = <<>>])
           /\ lifecycle = "initialized"
           /\ pointerEvents = 0
           /\ HostIdle
           /\ sinceFrame = 0
           /\ lastOp = "launch"
           /\ roundsEnded = 0
           /\ ticks = 0

WallNext ==
    \/ \E deltaTime \in DeltaTimes : FrameOf(MaxWallTicks, LaunchAngles, deltaTime, NoJitter)
    \/ Dispose

WallSpec == WallInit /\ [][WallNext]_vars

\* The game with the pointer, in debug mode and in AR mode with the
\* content placed: pointer events, a frame and the timers in any order.
PointerInit ==
    \/ Constructed("null", "running", TRUE, TRUE)
    \/ \E position \in AnchorPositions, cam \in CameraPositions :
           ConstructedAt(position, cam, "running", TRUE, TRUE)

PointerNext ==
    \/ Initialize
    \/ FrameOf(MaxPointerTicks, CampaignAngles, 1800, NoJitter)
    \/ TimerOf(CampaignAngles)
    \/ Dispose
    \/ \E event \in ClientPoints : PointerDown(event)
    \/ \E event \in ClientPoints : PointerMove(event)
    \/ PointerUp
    \/ PointerCancel

PointerSpec == PointerInit /\ [][PointerNext]_vars

----------------------------------------------------------------------------
(* Properties. *)

Happened(type) == \E i \in 1..Len(events) : events[i].type = type

HowMany(evs, type) == Cardinality({i \in 1..Len(evs) : evs[i].type = type})

PendingResets == Cardinality({i \in 1..Len(timers) : timers[i].kind = "reset"})

AllActive == \A i \in 1..Len(particlePool) : particlePool[i].active

\* Tolerance (mm/s) on the length of a velocity the fixed-point
\* normalisation has rounded.
SpeedTolerance == 1

\* C1: an update holds at most one scoring event; a scoring event adds
\* exactly 1 to exactly one of the two scores and leaves the other alone,
\* and the update that holds it ends with the ball at the table centre.
C1_OneScorePerUpdate ==
    [][lastOp' = "update" =>
         LET n == HowMany(events', "score")
         IN /\ n <= 1
            /\ \/ n = 0 /\ playerScore' = playerScore /\ aiScore' = aiScore
               \/ n = 1 /\ playerScore' = playerScore + 1 /\ aiScore' = aiScore
               \/ n = 1 /\ playerScore' = playerScore /\ aiScore' = aiScore + 1
            /\ n = 1 => ball' = Centre]_vars

\* C1 witness: both sides have scored, the last score in the update just
\* run, which left the ball at the centre.
C1_Witness ==
    /\ lastOp = "update"
    /\ Happened("score")
    /\ playerScore >= 1
    /\ aiScore >= 1
    /\ ball = Centre

\* C2 (as claimed): every time a score reaches winningScore the level goes
\* up by exactly one, within the delay window: the level never runs ahead
\* of the rounds that have ended, is level with them once no reset is
\* pending, and a reset leaves 0 : 0 and ballSpeed = min(0.5 + level*0.05, 0.8).
C2_OneLevelPerRound ==
    /\ gameLevel <= initialGameLevel + roundsEnded
    /\ PendingResets = 0 => gameLevel = initialGameLevel + roundsEnded
    /\ lastOp = "reset" =>
           /\ playerScore = 0
           /\ aiScore = 0
           /\ ballSpeed = Min2(500 + gameLevel * 50, 800)

\* C3: once the ball exists its x and y stay inside the play area, after
\* every update (whatever deltaTime) and every reset.
C3_BallContained ==
    lifecycle # "constructed" =>
        /\ ball.x >= -(tableWidth \div 2) + ballRadius
        /\ ball.x <= tableWidth \div 2 - ballRadius
        /\ ball.y >= tableHeight + ballRadius
        /\ ball.y <= tableHeight + playAreaHeight - ballRadius

\* C3 witness: a stall frame carried the ball from the centre line past a
\* side wall and below the floor, and it was put back on both bounds.
C3_Witness ==
    /\ lastOp = "update"
    /\ lastPosition.x = 0
    /\ Abs(ball.x) = tableWidth \div 2 - ballRadius
    /\ ball.y = tableHeight + ballRadius
    /\ HowMany(events, "wall") = 2

\* C4: once created the pool holds exactly 10 particle systems, the active
\* list never holds more than 10, and emitParticles with every slot active
\* changes nothing: no slot, not the active list, no timer.
C4_PoolBounded ==
    /\ Len(particlePool) = IF lifecycle = "constructed" THEN 0 ELSE poolSize
    /\ Len(particles) <= poolSize
    /\ AllActive =>
           \A color \in {"cyan", "blue", "green", "red"} :
               LET g == emitParticles(Game, color)
               IN /\ g.particlePool = particlePool
                  /\ g.particles = particles
                  /\ g.timers = timers
                  /\ g.objects = objects

\* C4 witness: the last operation called emitParticles with all 10 slots
\* active.
C4_Witness ==
    /\ Happened("emitDropped")
    /\ Len(particlePool) = poolSize
    /\ Len(particles) = poolSize

\* C5: right after a paddle collision the length of the ball's velocity is
\* the current ballSpeed, within the rounding tolerance.
C5_SpeedAfterPaddleHit ==
    \A i \in 1..Len(events) :
        events[i].type = "paddle" =>
            LET v == events[i].vel
                len2 == v.x * v.x + v.y * v.y + v.z * v.z
            IN /\ len2 >= (events[i].speed - SpeedTolerance) * (events[i].speed - SpeedTolerance)
               /\ len2 <= (events[i].speed + SpeedTolerance) * (events[i].speed + SpeedTolerance)

\* C5 witness: a paddle was hit off its centre at a raised speed target, so
\* the hit both deflected the ball and had to rescale it.
C5_Witness ==
    \E i \in 1..Len(events) :
        /\ events[i].type = "paddle"
        /\ events[i].vel.y # 0
        /\ events[i].speed > initialBallSpeed

\* C6 (as claimed): after dispose() the scene's update-callback list no
\* longer holds the function initialize() registered.
C6_CallbackRemoved ==
    lifecycle = "disposed" => onUpdateCallbacks = <<>>

\* C7 (as claimed): after dispose() nothing changes the scores, the level,
\* the speed, the ball, the particle pool or the score display.
C7_InertAfterDispose ==
    [][lifecycle = "disposed" =>
         UNCHANGED <<playerScore, aiScore, gameLevel, ballSpeed, ball, ballVelocity,
                     particlePool, particles, scoreText>>]_vars

\* C8 (as claimed): whenever launchBall assigns a launch velocity the ball
\* is at the table centre.
C8_ServeFromCentre ==
    \A i \in 1..Len(events) : events[i].type = "launch" => events[i].pos = Centre

\* C9 (as claimed): no score ever exceeds winningScore, and a round end is
\* triggered once per round: at most one round reset is pending.
C9_ScoresStopAtThreshold ==
    /\ playerScore <= winningScore
    /\ aiScore <= winningScore
    /\ PendingResets <= 1

\* C10 (as claimed): a score is lowered only by initialize() or by a round
\* reset, which zeroes both scores and runs only when one of them has
\* reached winningScore.
C10_ScoresLoweredOnlyAtRoundEnd ==
    [][(playerScore' < playerScore \/ aiScore' < aiScore) =>
         /\ lastOp' \in {"initialize", "reset"}
         /\ playerScore' = 0
         /\ aiScore' = 0
         /\ lastOp' = "reset" =>
                (playerScore >= winningScore \/ aiScore >= winningScore)]_vars

\* The ball as checkScoring found it in the last operation.
ScoringChecks == {events[i].pos : i \in {j \in 1..Len(events) : events[j].type = "checkScoring"}}

ScoringLimit == tableDepth \div 2 + ballRadius

\* C11: in an update aiScore goes up (by one) exactly when the ball, after
\* collision handling, has z > tableDepth/2 + ballRadius, and playerScore
\* exactly when z < -tableDepth/2 - ballRadius; within the two limits no
\* score changes.
C11_ScoringAtTableEnds ==
    [][lastOp' = "update" =>
         \A i \in 1..Len(events') :
             events'[i].type = "checkScoring" =>
                 LET z == events'[i].pos.z
                 IN /\ aiScore' = aiScore + (IF z > ScoringLimit THEN 1 ELSE 0)
                    /\ playerScore' = playerScore + (IF z < -ScoringLimit THEN 1 ELSE 0)]_vars

\* C11 witness: an update took the ball past the AI paddle's plane, beside
\* the paddle, but not beyond the table end, and no score changed.
C11_Witness ==
    /\ lastOp = "update"
    /\ \E b \in ScoringChecks :
           /\ b.z < -(tableDepth \div 2) + paddleBaseOffset - paddleDepth
           /\ b.z >= -ScoringLimit
    /\ ~Happened("score")
    /\ ~Happened("paddle")
    /\ playerScore = 0
    /\ aiScore = 0

\* C12: right after every launch the z velocity is non-zero, at least 0.3
\* in magnitude and so at least 0.3 of ballSpeed.
C12_LaunchFloor ==
    \A i \in 1..Len(events) :
        events[i].type = "launch" =>
            /\ events[i].vel.z # 0
            /\ Abs(events[i].vel.z) >= minLaunchZ
            /\ Abs(events[i].vel.z) * 1000 >= minLaunchZ * events[i].speed

\* C12 witness: a launch along the net (sin h = 0) at a raised ballSpeed:
\* the z component computed is 0 and the floor made it 0.3.
C12_Witness ==
    \E i \in 1..Len(events) :
        /\ events[i].type = "launch"
        /\ events[i].speed > initialBallSpeed
        /\ events[i].vel.x = events[i].speed
        /\ Abs(events[i].vel.z) = minLaunchZ

\* C13 (as claimed): the effects step comes last in an update, after the
\* collisions and the scoring of the tick, so every particle system active
\* at the end of an update has been advanced by that update.
C13_EffectsAdvanceLast ==
    (lastOp = "update" /\ isPlaying) =>
        \A i \in 1..Len(particles) : particlePool[particles[i]].lifetime > 0

\* C14: while the game is not playing (before initialize(), after
\* dispose()) update changes nothing: not the ball, the paddles, the scores,
\* the particles, the score indicators.
C14_UpdateInertWhenNotPlaying ==
    /\ [](~isPlaying =>
            \A deltaTime \in DeltaTimes, angle \in LaunchAngles :
                update(Game, deltaTime, angle, NoJitter) = Game)
    /\ [][(lastOp' = "update" /\ ~isPlaying) =>
            UNCHANGED <<ball, ballVelocity, lastPosition, playerPaddle, aiPaddle,
                        playerScore, aiScore, gameLevel, ballSpeed, particlePool,
                        particles, scoreIndicators, objects, scoreText>>]_vars

\* C14 witness: a frame has called update on the disposed game, whose ball
\* is in flight and which has a particle system active.
C14_Witness ==
    /\ lifecycle = "disposed"
    /\ lastOp = "update"
    /\ ballVelocity.z # 0
    /\ particles # <<>>

GameObjectKinds == {"table", "ball", "paddle", "wall", "particles", "indicator"}

\* C15: after dispose() no object the game added is in the scene's object
\* list, whether it was parented to the scene root or to the AR anchor.
C15_NoGameObjectAfterDispose ==
    lifecycle = "disposed" =>
        \A i \in 1..Len(objects) : objects[i].kind \notin GameObjectKinds

\* C15 witness: dispose() has just run on a game whose objects were under
\* the placed anchor, with a score indicator still live and an object of
\* the host in the list.
C15_Witness ==
    /\ lifecycle = "disposed"
    /\ lastOp = "dispose"
    /\ arAnchor = "placed"
    /\ scoreIndicators # <<>>
    /\ objects # <<>>

BothElements == scoreText.playerElement /\ scoreText.aiElement

\* C17: when both score elements exist, after every change of a score
\* (increment, round reset, initialize) the two displayed values are the
\* current scores; when one is missing nothing is displayed and the score
\* changes all the same: a scoring event still adds one point.
C17_DisplayMirrorsScores ==
    [][/\ (playerScore' # playerScore \/ aiScore' # aiScore \/ lastOp' = "initialize") =>
             IF BothElements
             THEN /\ scoreText'.player = ToString(playerScore')
                  /\ scoreText'.ai = ToString(aiScore')
             ELSE scoreText' = scoreText
       /\ HowMany(events', "score") = 1 =>
             playerScore' + aiScore' = playerScore + aiScore + 1]_vars

\* C17 witness: with the AI's element missing a point has just been
\* scored, and the display still shows what the page held.
C17_Witness ==
    /\ scoreText.playerElement
    /\ ~scoreText.aiElement
    /\ lastOp = "update"
    /\ Happened("score")
    /\ playerScore + aiScore = 1
    /\ scoreText.player = "0"

\* What of the state is gameplay: everything but the audio backend and
\* what playSound did with it.
Gameplay(g) ==
    [g EXCEPT !.audioContext = "any", !.audioOut = <<>>]

AudioBackends == {"null", "running", "throws"}

SoundTypes == {"wall", "paddle", "score", "win", "launch"}

\* C18: audio never influences gameplay: from every state, each handler
\* (initialize, update, a timer callback, dispose) leaves the same game
\* state whether the audio backend is absent, works, or throws on every
\* call; and playSound never propagates an exception: with a throwing
\* backend every call of the operation ended in a logged warning.
C18_AudioNeverInfluences ==
    /\ \A audio \in AudioBackends :
           LET other == [Game EXCEPT !.audioContext = audio]
           IN /\ \A deltaTime \in SceneDeltaTimes :
                     Gameplay(update(other, deltaTime, AnyAngle, NoJitter))
                         = Gameplay(update(Game, deltaTime, AnyAngle, NoJitter))
              /\ \A angle \in LaunchAngles :
                     Gameplay(runTimer(other, "launch", angle))
                         = Gameplay(runTimer(Game, "launch", angle))
              /\ \A kind \in {"burst", "reset"} :
                     Gameplay(runTimer(other, kind, AnyAngle))
                         = Gameplay(runTimer(Game, kind, AnyAngle))
              /\ lifecycle = "constructed" =>
                     Gameplay(initialize(other)) = Gameplay(initialize(Game))
              /\ lifecycle = "initialized" =>
                     Gameplay(dispose(other)) = Gameplay(dispose(Game))
    /\ Len(audioOut) = IF audioContext = "null" THEN 0
                       ELSE Cardinality({i \in 1..Len(events) : events[i].type \in SoundTypes})
    /\ audioContext = "throws" =>
           \A i \in 1..Len(audioOut) : audioOut[i].outcome = "warned"

\* C18 witness: with a backend that throws, an update has bounced the ball
\* off a wall, scored and relaunched: three sounds, three warnings, and
\* the point counted.
C18_Witness ==
    /\ audioContext = "throws"
    /\ lastOp = "update"
    /\ Happened("wall")
    /\ Happened("score")
    /\ Happened("launch")
    /\ Len(audioOut) >= 3
    /\ playerScore + aiScore = 1
    /\ ballVelocity.z # 0

\* C19: addObject returns the object it was given and appends it to the
\* object list, parented to the anchor if the anchor is placed and to the
\* scene root otherwise (the handle the game keeps for its table is the one
\* in the list); removeObject of an object that is not in the list leaves
\* the list as it is.
C19_AddReturnsRemoveTolerates ==
    /\ [](/\ \A obj \in HostObjects \cup {Obj("indicator", 1)} :
                LET g == addObject(Game, obj)
                IN /\ g.returned = obj
                   /\ g.objects = Append(objects, obj)
                   /\ [obj |-> obj, parent |-> IF arAnchor = "placed" THEN "anchor" ELSE "scene"]
                          \in g.sceneGraph
                   /\ IndexOf(objects, obj) = 0 => removeObject(Game, obj).objects = objects
          /\ lifecycle = "initialized" => IndexOf(objects, table) # 0)
    /\ [][/\ lastOp' = "addObject" =>
                \E obj \in HostObjects :
                    /\ objects' = Append(objects, obj)
                    /\ [obj |-> obj, parent |-> IF arAnchor = "placed" THEN "anchor" ELSE "scene"]
                           \in sceneGraph'
          /\ (lastOp' = "removeObject" /\ \A obj \in HostObjects : IndexOf(objects, obj) = 0) =>
                objects' = objects]_vars

\* C19 witness: the host has removed an object that was not in the list,
\* the list holding the game's objects, parented to the placed anchor.
C19_Witness ==
    /\ lastOp = "removeObject"
    /\ \A obj \in HostObjects : IndexOf(objects, obj) = 0
    /\ lifecycle = "initialized"
    /\ arAnchor = "placed"
    /\ \A e \in sceneGraph : e.parent = "anchor"
    /\ Len(objects) > poolSize

\* C16: gameLevel never decreases and changes by +1 steps only; ballSpeed
\* never decreases and stays within [0.5, 0.8]; the AI difficulty
\* min(0.4 + gameLevel*0.05, 0.9) never exceeds 0.9.
C16_LevelAndSpeedMonotone ==
    /\ [](/\ gameLevel >= initialGameLevel
          /\ ballSpeed >= initialBallSpeed
          /\ ballSpeed <= 800
          /\ aiDifficulty(gameLevel) <= 900)
    /\ [][/\ gameLevel' \in {gameLevel, gameLevel + 1}
          /\ ballSpeed' >= ballSpeed]_vars

\* C16 witness: a round reset has taken the game to level 11 or beyond,
\* where 0.5 + level*0.05 is above 0.8 and 0.4 + level*0.05 above 0.9: both
\* caps are at work.
C16_Witness ==
    /\ lastOp = "reset"
    /\ gameLevel >= 11
    /\ 500 + gameLevel * 50 > 800
    /\ 400 + gameLevel * 50 > 900
    /\ ballSpeed = 800

\* The bound of the jitter of one tick on x (mm).
JitterBound == 25

\* C20 (as claimed): the AI paddle, tracking a target held fixed inside the
\* clamp range from the side it starts on, closes in on the target and never
\* passes it by more than the jitter bound; and a tick moves it by the
\* fraction aiSpeed = 0.5 * difficulty < 1 of what is left, give or take the
\* jitter.
C20_BoundedOvershoot ==
    /\ [](aiPaddle.x <= ball.x + JitterBound)
    /\ [][lastOp' = "updateAI" =>
            LET aiSpeed == Quot(aiPaddleMovementSpeed * aiDifficulty(gameLevel), 1000)
                step == Quot((ball.x - aiPaddle.x) * aiSpeed, 1000)
            IN /\ aiSpeed < 1000
               /\ Abs(aiPaddle'.x - (aiPaddle.x + step)) <= JitterBound]_vars

----------------------------------------------------------------------------
(* Paddle hits. *)

\* A hit of the player paddle is logged with the bounced velocity, which
\* points at the AI; a hit of the AI paddle with one that points at the
\* player.
PlayerHits(evs) == SelectSeq(evs, LAMBDA e : e.type = "paddle" /\ e.vel.z < 0)
AIHits(evs) == SelectSeq(evs, LAMBDA e : e.type = "paddle" /\ e.vel.z > 0)

\* Where the ball's centre is when its leading edge is in the plane zc + r
\* (r signed), on the straight path from from to to.
AtCrossing(from, to, zc) ==
    [x |-> from.x + Quot((to.x - from.x) * (zc - from.z), to.z - from.z),
     y |-> from.y + Quot((to.y - from.y) * (zc - from.z), to.z - from.z),
     z |-> zc]

\* The ball, at from one tick ago and at to now with the velocity vel,
\* crosses the face of the player paddle (of the AI paddle) in this tick
\* and is within the paddle's extent when it does.
PlayerCrossing(from, to, vel, paddle) ==
    LET zc == paddle.z - paddleDepth \div 2 - ballRadius
    IN /\ vel.z > 0
       /\ from.z <= zc
       /\ to.z > zc
       /\ WithinPaddle(AtCrossing(from, to, zc), paddle)

AICrossing(from, to, vel, paddle) ==
    LET zc == paddle.z + paddleDepth \div 2 + ballRadius
    IN /\ vel.z < 0
       /\ from.z >= zc
       /\ to.z < zc
       /\ WithinPaddle(AtCrossing(from, to, zc), paddle)

\* C21 (as claimed): an update registers a paddle hit exactly when the ball
\* moves toward the paddle, its leading edge crosses the paddle's face
\* plane between the previous tick and this one, and the ball's (x, y) at
\* the moment of crossing is within the paddle's extent; so the ball never
\* passes through a paddle that covers it, whatever deltaTime.
C21_HitIffCrossingWithinExtent ==
    [][lastOp' = "update" =>
          \A i \in 1..Len(events') :
              events'[i].type = "checkPaddleCollisions" =>
                  /\ (PlayerHits(events') # <<>>) <=>
                         PlayerCrossing(ball, events'[i].pos, events'[i].vel, playerPaddle)
                  /\ (AIHits(events') # <<>>) <=>
                         AICrossing(ball, events'[i].pos, events'[i].vel, aiPaddle)]_vars

\* C22: a paddle hit turns the ball back (the z-velocity, positive before
\* a player-paddle hit, is strictly negative after it; negative before an
\* AI-paddle hit, strictly positive after it) and leaves the ball flush
\* against the paddle face (player: paddle.z - paddleDepth/2 - ballRadius;
\* AI: paddle.z + paddleDepth/2 + ballRadius); the update that follows an
\* update with a hit registers no hit of the same paddle.
C22_HitTurnsBackAndSnaps ==
    [][lastOp' = "update" =>
          /\ \A i \in 1..Len(events') :
                 events'[i].type = "paddle" =>
                     /\ i > 1
                     /\ events'[i - 1].type = "checkPaddleCollisions"
                     /\ events'[i - 1].vel.z # 0
                     /\ Sign(events'[i].vel.z) = -Sign(events'[i - 1].vel.z)
                     /\ events'[i].pos.x = events'[i - 1].pos.x
                     /\ events'[i].pos.y = events'[i - 1].pos.y
                     /\ events'[i].pos.z =
                            IF events'[i].vel.z < 0
                            THEN playerPaddle.z - paddleDepth \div 2 - ballRadius
                            ELSE aiPaddle.z + paddleDepth \div 2 + ballRadius
          /\ (lastOp = "update" /\ PlayerHits(events) # <<>>) => PlayerHits(events') = <<>>
          /\ (lastOp = "update" /\ AIHits(events) # <<>>) => AIHits(events') = <<>>]_vars

\* C22 witness: the AI paddle has returned the ball in the update just
\* done, which followed another update: the ball flies at the player from
\* the AI paddle's face.
C22_Witness ==
    /\ lastOp = "update"
    /\ AIHits(events) # <<>>
    /\ ballVelocity.z > 0
    /\ ball.z = aiPaddle.z + paddleDepth \div 2 + ballRadius
    /\ ticks >= 2

----------------------------------------------------------------------------
(* Walls. *)

floorY == tableHeight + ballRadius
ceilingY == tableHeight + playAreaHeight - ballRadius
wallX == tableWidth \div 2 - ballRadius

\* The index in evs of the event that shows the ball as the side-wall step
\* finds it, i being the index of the "integrate" event: the event the
\* floor/ceiling step ends with, when it acts, and the "integrate" event
\* itself otherwise.
BeforeSideWalls(evs, i) ==
    IF evs[i].pos.y < floorY \/ evs[i].pos.y > ceilingY THEN i + 2 ELSE i

\* C23: in an update, when y has left [tableHeight + ballRadius,
\* tableHeight + playAreaHeight - ballRadius] the floor/ceiling step puts y on
\* the violated bound and makes vy = -vy * groundDamping, changing nothing
\* else of the ball (after a floor hit vy >= 0, after a ceiling hit
\* vy <= 0); then, when |x| exceeds tableWidth/2 - ballRadius, the
\* side-wall step puts x on that bound with its sign and negates vx
\* exactly, changing nothing else of the ball.
C23_WallSteps ==
    [][lastOp' = "update" =>
          \A i \in 1..Len(events') :
              events'[i].type = "integrate" =>
                  LET b == events'[i]
                      k == BeforeSideWalls(events', i)
                  IN /\ b.pos.y < floorY =>
                            /\ events'[i + 1].type = "wall"
                            /\ events'[i + 1].pos = [b.pos EXCEPT !.y = floorY]
                            /\ events'[i + 1].vel =
                                   [b.vel EXCEPT !.y = Quot(-b.vel.y * groundDamping, 1000)]
                            /\ events'[i + 1].vel.y >= 0
                     /\ b.pos.y > ceilingY =>
                            /\ events'[i + 1].type = "wall"
                            /\ events'[i + 1].pos = [b.pos EXCEPT !.y = ceilingY]
                            /\ events'[i + 1].vel =
                                   [b.vel EXCEPT !.y = Quot(-b.vel.y * groundDamping, 1000)]
                            /\ events'[i + 1].vel.y <= 0
                     /\ (b.pos.y >= floorY /\ b.pos.y <= ceilingY) =>
                            events'[i + 1].type # "wall" \/ events'[i + 1].pos.y = b.pos.y
                     /\ events'[k].pos = [b.pos EXCEPT !.y = Clamp(floorY, ceilingY, b.pos.y)]
                     /\ Abs(events'[k].pos.x) > wallX =>
                            /\ events'[k + 1].type = "wall"
                            /\ events'[k + 1].pos =
                                   [events'[k].pos EXCEPT !.x = Sign(events'[k].pos.x) * wallX]
                            /\ events'[k + 1].vel = [events'[k].vel EXCEPT !.x = -@]
                     /\ Abs(events'[k].pos.x) <= wallX =>
                            events'[k + 1].type = "checkPaddleCollisions"]_vars

\* C23 witness: an update in which the ball hit the ceiling: it is on the
\* upper bound and comes down.
C23_Witness ==
    /\ lastOp = "update"
    /\ ball.y = ceilingY
    /\ ballVelocity.y < 0
    /\ \E i \in 1..Len(events) :
           /\ events[i].type = "integrate"
           /\ events[i].pos.y > ceilingY
           /\ events[i].vel.y > 0

\* C24: ballSpeed and gameLevel change in the round reset only: no update
\* (paddle hits, wall hits, scoring), serve, burst, initialize or dispose
\* changes either, and every step of an update sees the ballSpeed the
\* update started with.
C24_OnlyResetChangesSpeed ==
    [][/\ (ballSpeed' # ballSpeed \/ gameLevel' # gameLevel) => lastOp' = "reset"
       /\ lastOp' = "update" =>
              \A i \in 1..Len(events') : events'[i].speed = ballSpeed]_vars

\* C24 witness: a round reset has raised the level and the speed.
C24_Witness ==
    /\ lastOp = "reset"
    /\ gameLevel > initialGameLevel
    /\ ballSpeed > initialBallSpeed

----------------------------------------------------------------------------
(* The AI paddle. *)

\* C25: an update in which the ball's z-velocity is >= 0 when the AI step
\* runs leaves the AI paddle where it was.
C25_AIStillWhenBallLeaves ==
    [][lastOp' = "update" =>
          \A i \in 1..Len(events') :
              (events'[i].type = "updateAI" /\ events'[i].vel.z >= 0) =>
                  aiPaddle' = aiPaddle]_vars

\* C25 witness: the AI step has run with the ball flying at the player and
\* off the centre line, the AI paddle being away from its start.
C25_Witness ==
    /\ lastOp = "update"
    /\ \E i \in 1..Len(events) :
           /\ events[i].type = "updateAI"
           /\ events[i].vel.z > 0
           /\ events[i].pos.x # aiPaddle.x
    /\ aiPaddle.x # 0

\* C26: once the game is initialized the AI paddle is in the volume the
\* player paddle is clamped to, mirrored about the table centre: the same
\* x range and y range, and z in [-tableDepth/2, -(tableDepth/2 -
\* paddleDepthRange)], so never beyond the AI's table end.
C26_AIPaddleInMirroredVolume ==
    lifecycle # "constructed" =>
        /\ Abs(aiPaddle.x) <= tableWidth \div 2 - paddleWidth \div 2
        /\ aiPaddle.y >= tableHeight + paddleHeight \div 2
        /\ aiPaddle.y <= tableHeight + paddleVerticalRange
        /\ aiPaddle.z >= -(tableDepth \div 2)
        /\ aiPaddle.z <= -(tableDepth \div 2 - paddleDepthRange)
        /\ clampPlayerPaddle(aiPaddle.x, aiPaddle.y, -aiPaddle.z) =
               Vec(aiPaddle.x, aiPaddle.y, -aiPaddle.z)

\* C26 witness: the AI step has run several times with the jitter pushing
\* the paddle down and back: the paddle is on the lower bound of y and
\* behind its base position.
C26_Witness ==
    /\ lastOp = "updateAI"
    /\ ticks >= 3
    /\ aiPaddle.y = tableHeight + paddleHeight \div 2
    /\ aiPaddle.z <= -(tableDepth \div 2) + paddleBaseOffset - 20

----------------------------------------------------------------------------
(* The pointer. *)

PlayerPaddleInRange ==
    /\ Abs(playerPaddle.x) <= tableWidth \div 2 - paddleWidth \div 2
    /\ playerPaddle.y >= tableHeight + paddleHeight \div 2
    /\ playerPaddle.y <= tableHeight + paddleVerticalRange
    /\ playerPaddle.z >= tableDepth \div 2 - paddleDepthRange
    /\ playerPaddle.z <= tableDepth \div 2

\* C27: whatever pointer events arrive, in debug mode and in AR mode, the
\* player paddle stays in its range (|x| <= tableWidth/2 - paddleWidth/2,
\* y in [tableHeight + paddleHeight/2, tableHeight + paddleVerticalRange],
\* z in [tableDepth/2 - paddleDepthRange, tableDepth/2]); pointerDown is
\* set by pointerdown, cleared by pointerup and pointercancel and left
\* alone by everything else, and a pointermove that finds it cleared does
\* not move the paddle.
C27_PointerKeepsPaddleInRange ==
    /\ [](lifecycle # "constructed" => PlayerPaddleInRange)
    /\ [][/\ lastOp' = "pointerdown" => pointerDown'
          /\ lastOp' \in {"pointerup", "pointercancel"} => ~pointerDown'
          /\ lastOp' \notin {"pointerdown", "pointerup", "pointercancel"} =>
                 pointerDown' = pointerDown
          /\ (lastOp' = "pointermove" /\ ~pointerDown) =>
                 playerPaddle' = playerPaddle]_vars

\* C27 witness: a pointermove during a drag has taken the paddle to the
\* bounds of x and z.
C27_Witness ==
    /\ lastOp = "pointermove"
    /\ pointerDown
    /\ playerPaddle.x = -(tableWidth \div 2 - paddleWidth \div 2)
    /\ playerPaddle.z = tableDepth \div 2 - paddleDepthRange

----------------------------------------------------------------------------
(* The particle pool and the score indicators. *)

\* The deltaTime of the update whose log is evs.
DeltaTimeOf(evs) ==
    LET i == CHOOSE i \in 1..Len(evs) : evs[i].type = "integrate" IN evs[i].deltaTime

Updated(evs) == \E i \in 1..Len(evs) : evs[i].type = "integrate"

\* The active list holds exactly the active slots of the pool, each once;
\* an active slot is visible and has not reached maxLifetime, an inactive
\* one is hidden.
ListMatchesPool ==
    /\ \A s \in 1..Len(particlePool) :
           /\ particlePool[s].active <=> \E i \in 1..Len(particles) : particles[i] = s
           /\ particlePool[s].active =>
                  particlePool[s].visible /\ particlePool[s].lifetime < maxLifetime
           /\ ~particlePool[s].active => ~particlePool[s].visible
    /\ \A i \in 1..Len(particles) :
           /\ particles[i] \in 1..Len(particlePool)
           /\ \A j \in 1..Len(particles) : particles[i] = particles[j] => i = j

\* C28: the active list holds exactly the pool slots whose active flag is
\* set, each once; an emission leaves every active slot as it is and takes
\* an inactive slot, if any, with lifetime 0 (when the emission comes
\* before the particle step of an update, the slot is then aged or expired
\* by that step like the others); in an update an active slot whose
\* lifetime stays below maxLifetime is only aged, and one whose lifetime
\* reaches maxLifetime is deactivated and hidden, after which (and only
\* then) it may be acquired again in the same update.
C28_PoolDiscipline ==
    /\ []ListMatchesPool
    /\ [][lastOp' \notin {"initialize", "dispose"} =>
             \A s \in 1..Len(particlePool) :
                 LET old == particlePool[s]
                     new == particlePool'[s]
                     acquired == new.active /\ new.visible /\ new.lifetime = 0
                     dt == IF Updated(events') THEN DeltaTimeOf(events') ELSE 0
                     aged == /\ new.lifetime = dt
                             /\ new.active = (dt < maxLifetime)
                             /\ new.visible = (dt < maxLifetime)
                 IN IF ~old.active THEN new = old \/ acquired \/ aged
                    ELSE IF old.lifetime + dt < maxLifetime
                    THEN new = [old EXCEPT !.lifetime = @ + dt]
                    ELSE (~new.active /\ ~new.visible) \/ acquired]_vars

\* C28 witness: a slot acquired again after its expiry.  Slots are taken
\* lowest first, so slot s was active when the higher slot t was first
\* acquired and had expired by the time t expired; s is now active and new.
C28_Witness ==
    /\ lastOp = "update"
    /\ \E s \in 1..Len(particlePool) :
           /\ particlePool[s].active
           /\ particlePool[s].lifetime = 0
           /\ \E t \in 1..Len(particlePool) :
                  /\ t > s
                  /\ ~particlePool[t].active
                  /\ particlePool[t].lifetime >= maxLifetime

\* The score indicators the scene holds.
IndicatorsInScene == {o \in sceneGraph : o.obj.kind = "indicator"}

\* C29: every score creates one indicator and adds it to the scene; each
\* update ages the listed indicators by deltaTime and removes from the list
\* and from the scene those that reach 1.5 s, so that after an update the
\* list holds no expired indicator; until dispose the indicators of the
\* list are those of the scene.  (Every update with deltaTime > 0 brings
\* each indicator nearer to its removal.)
C29_IndicatorLifecycle ==
    /\ [](\A k \in 1..Len(scoreIndicators) :
              /\ scoreIndicators[k].lifetime < indicatorMaxLifetime
              /\ \A m \in 1..Len(scoreIndicators) :
                     scoreIndicators[k].id = scoreIndicators[m].id => k = m)
    /\ [](lifecycle # "disposed" =>
              /\ \A k \in 1..Len(scoreIndicators) :
                     IndexOf(objects, Obj("indicator", scoreIndicators[k].id)) # 0
              /\ Cardinality({o \in {objects[i] : i \in 1..Len(objects)} :
                                 o.kind = "indicator"}) = Len(scoreIndicators)
              /\ Cardinality(IndicatorsInScene) = Len(scoreIndicators))
    /\ [][(lastOp' = "update" /\ Updated(events')) =>
             LET dt == DeltaTimeOf(events')
                 kept == SelectSeq(scoreIndicators,
                                   LAMBDA ind : ind.lifetime + dt < indicatorMaxLifetime)
                 scored == HowMany(events', "score")
                 made == IF dt < indicatorMaxLifetime THEN scored ELSE 0
             IN /\ dt > 0
                /\ Len(scoreIndicators') = Len(kept) + made
                /\ \A k \in 1..Len(kept) :
                       scoreIndicators'[k] = [kept[k] EXCEPT !.lifetime = @ + dt]
                /\ \A k \in (Len(kept) + 1)..Len(scoreIndicators') :
                       scoreIndicators'[k].lifetime = dt]_vars

\* C29 witness: an indicator that has lived through more than one update
\* and is still short of 1.5 s.
C29_Witness ==
    /\ lastOp = "update"
    /\ \E k \in 1..Len(scoreIndicators) :
           /\ scoreIndicators[k].lifetime >= 1400
           /\ Obj("indicator", scoreIndicators[k].id) \in {objects[i] : i \in 1..Len(objects)}

----------------------------------------------------------------------------
(* The round end. *)

\* The delays left of the pending timers of kind kind.
Pending(ts, kind) == {ts[i].rem : i \in {j \in 1..Len(ts) : ts[j].kind = kind}}

HowManyTimers(ts, kind) == Cardinality({i \in 1..Len(ts) : ts[i].kind = kind})

\* The update that detects a win plays 'win' once and leaves pending the
\* five bursts of this win, 0, 300, 600, 900 and 1200 ms ahead, and the one
\* round reset, 3000 ms ahead.
WinSchedules ==
    (lastOp' = "update" /\ HowMany(events', "win") > 0) =>
        /\ HowMany(events', "win") = 1
        /\ HowManyTimers(timers', "burst") = burstCount
        /\ Pending(timers', "burst") = {i * burstInterval : i \in 0..(burstCount - 1)}
        /\ HowManyTimers(timers', "reset") = 1
        /\ Pending(timers', "reset") = {resetDelay}

\* A burst comes before the round reset, the won round's score still
\* standing, and takes a free slot in the winner's colour.
BurstBeforeReset ==
    lastOp' = "burst" =>
        /\ HowManyTimers(timers, "reset") = 1
        /\ TopScore(Game) >= winningScore
        /\ \A s \in 1..Len(particlePool) :
               (~particlePool[s].active /\ particlePool'[s].active) =>
                   particlePool'[s].color =
                       IF playerScore >= winningScore THEN "green" ELSE "red"

\* The round reset comes when the bursts are over and leaves the serve
\* pending, 1 s ahead.
ResetAfterBursts ==
    lastOp' = "reset" =>
        /\ HowManyTimers(timers', "burst") = 0
        /\ HowManyTimers(timers', "reset") = 0
        /\ HowManyTimers(timers', "launch") = 1
        /\ Pending(timers', "launch") = {serveDelay}
        /\ ballSpeed' = speedForLevel(gameLevel')

\* The serve after a round reset uses the ballSpeed the reset has set.
LaunchUsesNewSpeed ==
    lastOp' = "launch" =>
        \A i \in 1..Len(events') :
            events'[i].type = "launch" =>
                /\ events'[i].speed = ballSpeed'
                /\ ballSpeed' = IF gameLevel' = initialGameLevel THEN initialBallSpeed
                                ELSE speedForLevel(gameLevel')

\* C30 (as claimed): a win is followed by one 'win' audio event, then by
\* five celebration bursts 0, 300, 600, 900 and 1200 ms later, each in the
\* colour of the side that won the round, all before the round reset at
\* 3000 ms; the reset is followed 1 s later by the next launch, which uses
\* the new ballSpeed.
C30_WinSequence ==
    [][WinSchedules /\ BurstBeforeReset /\ ResetAfterBursts /\ LaunchUsesNewSpeed]_vars

----------------------------------------------------------------------------
(* The serve delay. *)

\* A serve is pending: resetBall(true) has run and its launch has not.
ServePending == HowManyTimers(timers, "launch") > 0

\* C31 (as claimed): after an update that falls in a serve delay (between
\* resetBall(true) and its launch, on the first serve and after a round
\* reset) the ball is at the table centre, and the update has produced no
\* wall-hit, paddle-hit or score event, neither sound nor particles.
C31_QuietServeDelay ==
    (lastOp = "update" /\ ServePending) =>
        /\ ball = Centre
        /\ \A i \in 1..Len(events) :
               events[i].type \notin {"wall", "paddle", "score", "emit", "emitDropped"}

\* C32: an update registers at most one paddle hit, and an update with a
\* paddle hit changes no score: the ball, snapped to the paddle face, is
\* inside the scoring limits.
C32_OneHitNoScore ==
    [][lastOp' = "update" =>
          /\ HowMany(events', "paddle") <= 1
          /\ HowMany(events', "paddle") = 1 =>
                 /\ HowMany(events', "score") = 0
                 /\ playerScore' = playerScore
                 /\ aiScore' = aiScore
                 /\ \A i \in 1..Len(events') :
                        events'[i].type = "paddle" =>
                            /\ events'[i].pos.z <= tableDepth \div 2 + ballRadius
                            /\ events'[i].pos.z >= -(tableDepth \div 2) - ballRadius]_vars

\* C32 witness: the player paddle has returned a ball that the tick had
\* carried beyond the player's scoring limit.
C32_Witness ==
    /\ lastOp = "update"
    /\ PlayerHits(events) # <<>>
    /\ \E i \in 1..Len(events) :
           /\ events[i].type = "checkPaddleCollisions"
           /\ events[i].pos.z > tableDepth \div 2 + ballRadius

----------------------------------------------------------------------------
(* The pointer in AR mode. *)

\* The step is a pointer event that runs updatePointerPosition in AR mode.
ARPointerStep ==
    /\ arAnchor # "null"
    /\ \/ lastOp' = "pointerdown"
       \/ lastOp' = "pointermove" /\ pointerDown
    /\ pointerEvents' = pointerEvents + 1

\* C36: handling a pointer event in AR mode leaves the anchor's world
\* transform (arAnchor.matrixWorld) as it was, and two pointer events
\* handled one after the other in the same frame with the same pointer
\* coordinates give the same paddle position.
C36_PointerLeavesAnchorTransform ==
    [][ARPointerStep =>
          /\ matrixWorld' = matrixWorld
          /\ (/\ lastOp \in {"pointerdown", "pointermove"}
              /\ lastPointerPosition' = lastPointerPosition) =>
                 playerPaddle' = playerPaddle]_vars

----------------------------------------------------------------------------
(* DebugUtility: the list of entries and the panel that shows them. *)

maxEntries == 100

\* Calls on the debug panel in one behaviour, and the log() calls made
\* before it starts: none, or enough to be two short of the limit.
MaxDebugCalls == 4
PriorCalls == {0, maxEntries - 2}

\* The fields of the DebugUtility, with the panel they write to.
Debug ==
    [ entries |-> entries, debugContent |-> debugContent,
      panelVisible |-> panelVisible, elements |-> elements ]

\* Node.removeChild.
removeChild(children, child) == RemoveAt(children, IndexOf(children, child))

\* addEntry with pop() for shift(): the newest entry goes, not the oldest.
addEntryPopping(d, type) ==
    LET entry == [className |-> type, id |-> d.elements + 1]
        d1 == [d EXCEPT !.elements = d.elements + 1,
                        !.debugContent = Append(d.debugContent, entry),
                        !.entries = Append(d.entries, entry)]
    IN IF Len(d1.entries) > maxEntries
       THEN [d1 EXCEPT !.debugContent = removeChild(d1.debugContent, entry),
                       !.entries = SubSeq(d1.entries, 1, Len(d1.entries) - 1)]
       ELSE d1

\* addEntry(type, message): debugContent is set by the constructor, so the
\* panel is never created here.
addEntry(d, type) ==
    LET entry == [className |-> type, id |-> d.elements + 1]
        d1 == [d EXCEPT !.elements = d.elements + 1,
                        !.debugContent = Append(d.debugContent, entry),
                        !.entries = Append(d.entries, entry)]
    IN IF Len(d1.entries) > maxEntries
       THEN [d1 EXCEPT !.debugContent = removeChild(d1.debugContent, Head(d1.entries)),
                       !.entries = Tail(d1.entries)]
       ELSE d1

log(d) == addEntry(d, "log")

warn(d) == addEntry(d, "warn")

\* error() also shows the panel.
error(d) == [addEntry(d, "error") EXCEPT !.panelVisible = TRUE]

clear(d) == [d EXCEPT !.debugContent = <<>>, !.entries = <<>>]

\* The window's 'error' and 'unhandledrejection' listeners: a message of
\* their own appended to the panel, which no DebugUtility list holds.
onUncaughtError(d) ==
    [d EXCEPT !.elements = d.elements + 1,
              !.debugContent = Append(d.debugContent,
                                      [className |-> "uncaught", id |-> d.elements + 1]),
              !.panelVisible = TRUE]

\* An operation on the panel that ends in d.
DebugCall(d, name) ==
    /\ debugCalls < MaxDebugCalls
    /\ entries' = d.entries
    /\ debugContent' = d.debugContent
    /\ panelVisible' = d.panelVisible
    /\ elements' = d.elements
    /\ debugCalls' = debugCalls + 1
    /\ lastOp' = name
    /\ UNCHANGED <<gameState, app>>

DebugLog == DebugCall(log(Debug), "log")

DebugWarn == DebugCall(warn(Debug), "warn")

DebugError == DebugCall(error(Debug), "error")

DebugClear == DebugCall(clear(Debug), "clear")

UncaughtError == DebugCall(onUncaughtError(Debug), "uncaught")

\* The page after n log() calls.
DebugInit ==
    /\ GameConstructedIn(NewGame("null", "running", TRUE, TRUE))
    /\ \E n \in PriorCalls :
           /\ entries = [i \in 1..n |-> [className |-> "log", id |-> i]]
           /\ debugContent = entries
           /\ elements = n
    /\ panelVisible = FALSE
    /\ debugCalls = 0
    /\ app = NewApp(TRUE)

DebugNext ==
    \/ DebugLog
    \/ DebugWarn
    \/ DebugError
    \/ DebugClear
    \/ UncaughtError

DebugSpec == DebugInit /\ [][DebugNext]_vars

\* The step is a log, warn or error call.
EntryAdded == lastOp' \in {"log", "warn", "error"}

\* C37: the list never holds more than maxEntries entries; a log, warn or
\* error call puts its new entry last in the list and in the panel, and
\* when the list was full it takes exactly the oldest entry out of both,
\* everything else staying in place; clear() leaves the list empty.
C37_EntriesBounded ==
    /\ [](Len(entries) <= maxEntries)
    /\ [][EntryAdded =>
            LET new == [className |-> lastOp', id |-> elements']
                full == Len(entries) = maxEntries
                kept == IF full THEN Tail(entries) ELSE entries
                shown == IF full
                         THEN SelectSeq(debugContent, LAMBDA c : c # Head(entries))
                         ELSE debugContent
            IN /\ entries' = Append(kept, new)
               /\ debugContent' = Append(shown, new)]_vars
    /\ [][lastOp' = "clear" => entries' = <<>>]_vars

\* C37 witness: a call on a full list has taken out the oldest entry, with
\* a message of the window's error listener in the panel.
C37_Witness ==
    /\ lastOp \in {"log", "warn", "error"}
    /\ Len(entries) = maxEntries
    /\ Head(entries).id > 1
    /\ \E i \in 1..Len(debugContent) : debugContent[i].className = "uncaught"

----------------------------------------------------------------------------
(* The App: starting and leaving the AR experience.  A method is an        *)
(* operator on the record of the App and its ARScene; a method that throws *)
(* returns the record with thrown set, and the caller goes on only when it *)
(* is not.                                                                 *)

maxARStartAttempts == 3

\* PongGame instances the App makes in one behaviour.
MaxGames == 3

\* What the browser answers: getUserMedia and navigator.xr.requestSession.
Answers == {"granted", "denied"}

Throw(a) == [a EXCEPT !.thrown = TRUE]

\* method is invoked on the ARScene.
Called(a, method) ==
    [a EXCEPT !.calls = Append(a.calls, [method |-> method, scene |-> a.scene,
                                         renderer |-> a.renderer])]

\* ARScene.setupScene: the scene, the camera and the renderer.
setupScene(a) == [a EXCEPT !.scene = TRUE, !.renderer = TRUE]

\* ARScene.initializeGL.
initializeGL(a) ==
    LET a1 == Called(a, "initializeGL")
    IN IF ~a1.renderer THEN Throw(a1) ELSE [a1 EXCEPT !.gl = TRUE]

\* ARScene.setupDebugMode: this.scene.add(platform) first.
setupDebugMode(a) ==
    LET a1 == Called(a, "setupDebugMode")
    IN IF ~a1.scene THEN Throw(a1) ELSE a1

\* ARScene.initialize; returned is its result.
initializeScene(a) ==
    LET a1 == setupScene(Called(a, "initialize"))
        debug == setupDebugMode([a1 EXCEPT !.debugMode = TRUE])
    IN IF ~a1.arSupported \/ a1.useARFallbackMode
       THEN [a |-> debug, returned |-> TRUE]
       ELSE LET a2 == initializeGL(a1)
            IN IF a2.thrown
               THEN [a |-> setupDebugMode([a2 EXCEPT !.thrown = FALSE, !.debugMode = TRUE]),
                     returned |-> FALSE]
               ELSE [a |-> a2, returned |-> TRUE]

\* ARScene.endSession.  In debug mode it stops the renderer's animation
\* loop; otherwise it ends the session, whose 'end' listener (added at the
\* end of setupXRSession) clears this.session.
endSession(a) ==
    IF a.debugMode
    THEN IF ~a.renderer THEN Throw(a) ELSE a
    ELSE IF a.session /\ a.sessionReady
         THEN [a EXCEPT !.session = FALSE, !.sessionReady = FALSE]
         ELSE a

\* ARScene.startXRSession, with the browser's answer to requestSession;
\* setupXRSession makes an XRWebGLLayer from this.gl.
startXRSession(a, xr) ==
    LET a1 == Called(a, "startXRSession")
        a2 == IF a1.session THEN endSession(a1) ELSE a1
    IN IF a2.thrown THEN a2
       ELSE IF xr = "denied" THEN Throw(a2)
       ELSE IF ~a2.gl THEN Throw([a2 EXCEPT !.session = TRUE])
       ELSE [a2 EXCEPT !.session = TRUE, !.sessionReady = TRUE]

\* ARScene.createARContent.
createARContent(a) ==
    IF a.arAnchor # "null" THEN a
    ELSE IF ~a.scene THEN Throw(a)
    ELSE [a EXCEPT !.arAnchor = "created"]

\* PongGame.dispose of the current game, and this.pongGame = null.
disposeGame(a) ==
    IF a.pongGame = 0 THEN a
    ELSE [a EXCEPT !.games[a.pongGame] = [isPlaying |-> FALSE, disposed |-> TRUE],
                   !.pongGame = 0]

\* App.loadExperience without the dispose of the game it replaces.
loadExperienceOver(a) ==
    LET a1 == Called(a, "loadExperience")
        a2 == [a1 EXCEPT !.games = Append(a1.games, [isPlaying |-> FALSE, disposed |-> FALSE]),
                         !.pongGame = Len(a1.games) + 1]
    IN IF a2.arAnchor # "placed" /\ ~a2.scene
       THEN Throw(a2)
       ELSE [a2 EXCEPT !.games[a2.pongGame].isPlaying = TRUE]

\* App.loadExperience('pong'): new PongGame and initialize(), whose first
\* step, createTable, adds the table to the placed anchor or to the scene;
\* isPlaying is set when the objects are made.
loadExperience(a) ==
    LET a1 == disposeGame(Called(a, "loadExperience"))
        a2 == [a1 EXCEPT !.games = Append(a1.games, [isPlaying |-> FALSE, disposed |-> FALSE]),
                         !.pongGame = Len(a1.games) + 1]
    IN IF a2.arAnchor # "placed" /\ ~a2.scene
       THEN Throw(a2)
       ELSE [a2 EXCEPT !.games[a2.pongGame].isPlaying = TRUE]

\* App.exitARExperience: when endSession throws the rest is not run.
exitARExperience(a) ==
    LET a1 == disposeGame(a)
        a2 == IF a1.arScene THEN endSession(a1) ELSE a1
    IN IF a2.thrown THEN a2
       ELSE [a2 EXCEPT !.arActive = FALSE, !.page = "landing"]

showARNotSupported(a) == [a EXCEPT !.notSupported = TRUE, !.startDisabled = TRUE]

\* The catch block of startARExperience.
startFailed(a) ==
    exitARExperience(showARNotSupported([a EXCEPT !.thrown = FALSE, !.reported = TRUE]))

\* startARExperience from "Set AR as active" on.
activate(a) ==
    LET a1 == [a EXCEPT !.arActive = TRUE]
        a2 == IF a1.debugMode THEN loadExperience(a1) ELSE createARContent(a1)
    IN IF a2.thrown THEN startFailed(a2) ELSE a2

\* startARExperience from "Start the AR session" on.
startSession(a, xr) ==
    IF a.debugMode THEN activate(a)
    ELSE LET a1 == startXRSession(a, xr)
             a2 == [a1 EXCEPT !.thrown = FALSE, !.reported = TRUE,
                              !.arStartAttempts = a1.arStartAttempts + 1]
             a3 == setupDebugMode([a2 EXCEPT !.useARFallbackMode = TRUE,
                                             !.debugMode = TRUE])
         IN IF ~a1.thrown THEN activate(a1)
            ELSE IF a2.arStartAttempts >= maxARStartAttempts
                 THEN IF a3.thrown THEN startFailed(a3) ELSE activate(a3)
                 ELSE startFailed(Throw(a2))

\* App.startARExperience, with the browser's answers to getUserMedia and
\* to requestSession.
startARExperience(a, media, xr) ==
    IF media = "denied"
    THEN [a EXCEPT !.permissionShown = TRUE]
    ELSE LET a1 == [a EXCEPT !.page = "ar"]
             a2 == initializeGL([a1 EXCEPT !.arScene = TRUE])
             r == initializeScene(a2)
         IN IF a1.arScene THEN startSession(a1, xr)
            ELSE IF a2.thrown THEN startFailed(a2)
            ELSE IF ~r.returned THEN startFailed(r.a)
            ELSE startSession(r.a, xr)

\* The click listener of the 'Grant Camera Access' button.
onPermissionClick(a, media, xr) ==
    IF media = "denied"
    THEN showARNotSupported([a EXCEPT !.reported = TRUE])
    ELSE startARExperience([a EXCEPT !.permissionShown = FALSE], media, xr)

\* ARScene.placeARContent, which dispatches 'ar-placed', and App.onARPlaced.
placeARContent(a) ==
    LET a1 == createARContent(a)
    IN IF a1.thrown THEN a1 ELSE loadExperience([a1 EXCEPT !.arAnchor = "placed"])

\* The touchstart listener and App.handleARTap: lastHitPoseMatrix is set by
\* the XR render loop, which runs when the session is set up.
onTouchStart(a) ==
    IF a.arActive /\ a.arScene /\ ~a.debugMode /\ a.sessionReady
    THEN placeARContent(a)
    ELSE a

\* The handler name has run and ended in a; calls, reported and thrown are
\* those of the handler.
AppCall(a, name) ==
    /\ app' = a
    /\ lastOp' = name
    /\ UNCHANGED <<gameState, entries, debugContent, panelVisible, elements, debugCalls>>

Fresh == [app EXCEPT !.calls = <<>>, !.reported = FALSE, !.thrown = FALSE]

StartClick(media, xr) ==
    /\ ~app.startDisabled
    /\ Len(app.games) < MaxGames
    /\ AppCall(startARExperience(Fresh, media, xr), "start")

PermissionClick(media, xr) ==
    /\ app.permissionShown
    /\ Len(app.games) < MaxGames
    /\ AppCall(onPermissionClick(Fresh, media, xr), "permission")

ExitClick ==
    /\ app.page = "ar"
    /\ AppCall(exitARExperience(Fresh), "exit")

\* The two buttons of the 'AR Not Supported' notice.
DismissClick ==
    /\ app.notSupported
    /\ AppCall([Fresh EXCEPT !.notSupported = FALSE], "dismiss")

FallbackClick ==
    /\ app.notSupported
    /\ AppCall([Fresh EXCEPT !.notSupported = FALSE, !.startDisabled = FALSE,
                             !.useARFallbackMode = TRUE], "fallback")

TouchStart ==
    /\ Len(app.games) < MaxGames
    /\ AppCall(onTouchStart(Fresh), "touchstart")

\* The page with the App in the state a.
AppStarts(a) ==
    /\ GameConstructedIn(NewGame("null", "running", TRUE, TRUE))
    /\ app = a
    /\ entries = <<>>
    /\ debugContent = <<>>
    /\ panelVisible = FALSE
    /\ elements = 0
    /\ debugCalls = 0

AppInit == \E arSupported \in BOOLEAN : AppStarts(NewApp(arSupported))

AppNext ==
    \/ \E media \in Answers, xr \in Answers : StartClick(media, xr)
    \/ \E media \in Answers, xr \in Answers : PermissionClick(media, xr)
    \/ ExitClick
    \/ DismissClick
    \/ FallbackClick
    \/ TouchStart

AppSpec == AppInit /\ [][AppNext]_vars

\* The App with an ARScene that ARScene.initialize() has set up (the scene
\* and the renderer made, then debug mode or the WebGL context), on the
\* landing page, before the first start.
SceneReady(arSupported, fallback) ==
    LET made == [NewApp(arSupported) EXCEPT !.arScene = TRUE, !.useARFallbackMode = fallback,
                                            !.startDisabled = FALSE, !.notSupported = FALSE]
    IN [initializeScene(made).a EXCEPT !.calls = <<>>]

\* The App as constructed, or with its ARScene set up.
LoadInit ==
    \/ AppInit
    \/ \E arSupported \in BOOLEAN, fallback \in BOOLEAN :
           AppStarts(SceneReady(arSupported, fallback))

LoadSpec == LoadInit /\ [][AppNext]_vars

----------------------------------------------------------------------------
(* Properties of the App. *)

\* C34: initializeGL, startXRSession, setupDebugMode and loadExperience are
\* invoked on an ARScene only when its scene and its renderer have been
\* created (by ARScene.initialize / setupScene), never while either is
\* still null.
C34_SceneBeforeUse ==
    \A i \in 1..Len(app.calls) :
        app.calls[i].method \in {"initializeGL", "startXRSession", "setupDebugMode",
                                 "loadExperience"} =>
            app.calls[i].scene /\ app.calls[i].renderer

\* The step is a start whose XR session start failed.
XRStartFailed == app'.arStartAttempts = app.arStartAttempts + 1

\* C35: arStartAttempts never exceeds maxARStartAttempts; each of the first
\* two failed XR session starts is reported as an error and returns the app
\* to the landing page; the third switches the scene to fallback (debug)
\* mode and loads the experience at once; and no XR session start is
\* attempted after it.
C35_ThreeAttempts ==
    /\ [](app.arStartAttempts <= maxARStartAttempts)
    /\ [][XRStartFailed =>
            IF app'.arStartAttempts < maxARStartAttempts
            THEN /\ app'.reported
                 /\ app'.page = "landing"
                 /\ ~app'.arActive
                 /\ ~app'.debugMode
            ELSE /\ app'.debugMode
                 /\ app'.arActive
                 /\ app'.pongGame # 0
                 /\ app'.games[app'.pongGame].isPlaying]_vars
    /\ [][app.arStartAttempts >= maxARStartAttempts =>
            \A i \in 1..Len(app'.calls) : app'.calls[i].method # "startXRSession"]_vars

\* The PongGame instances that are playing.
Playing == { i \in 1..Len(app.games) : app.games[i].isPlaying }

\* C33: at most one PongGame instance has isPlaying = true, and it is the
\* App's current game; every instance the App has replaced or dropped was
\* disposed first, whatever the order of starts, exits and placements.
C33_OneGamePlaying ==
    /\ Cardinality(Playing) <= 1
    /\ Playing \subseteq {app.pongGame}
    /\ \A i \in 1..Len(app.games) : i # app.pongGame => app.games[i].disposed

\* C33 witness: a placement has replaced a playing game by a new one, the
\* third this App has made, and only the new one plays.
C33_Witness ==
    /\ lastOp = "touchstart"
    /\ Len(app.games) >= 3
    /\ app.pongGame = Len(app.games)
    /\ Playing = {app.pongGame}

====
